---------------------------- MODULE Spec2Model ----------------------------
(***************************************************************************)
(* A model of the cupkk/World workspace core:                              *)
(*   - the reconciliation engine (src/src/pages/workspaceCore.ts),         *)
(*   - the history compactor (src/src/pages/workspacePersistence.ts),      *)
(*   - the workspace page's state handlers (src/src/pages/Workspace.tsx),  *)
(*   - the incremental frame decoder (src/server/src/streaming.ts).        *)
(*                                                                         *)
(* A JavaScript string is a sequence of UTF-16 code units (naturals).      *)
(* An optional field of an object is a field that the record lacks.        *)
(* Timestamps (lastUpdated, timestamp) are left out: no control flow of    *)
(* the modelled code reads them except the edit-snapshot throttle, which   *)
(* is modelled by its own clock.                                           *)
(***************************************************************************)
EXTENDS Integers, Sequences, FiniteSets, TLC

VARIABLES
    core,       \* a function of workspaceCore.ts run on its own: its input and its result
    state,      \* the WorkspaceState of DualPaneWorkspace
    ui,         \* the other React state and refs of DualPaneWorkspace
    turn,       \* the agent turn in flight (handleSendMessage / handleRetryLastRequest)
    storage,    \* localStorage[STORAGE_KEY] and the deferred write
    persist,    \* one call of persistWorkspaceSnapshot
    dec,        \* the decoder run over a growing buffer
    hist        \* history (ghost) variables the properties read

vars == <<core, state, ui, turn, storage, persist, dec, hist>>

---------------------------------------------------------------------------
(* Characters and strings                                                  *)

Ch ==
    [ tab |-> 9, lf |-> 10, cr |-> 13, sp |-> 32, quote |-> 34, hash |-> 35,
      amp |-> 38, apos |-> 39, comma |-> 44, minus |-> 45, slash |-> 47,
      d0 |-> 48, d1 |-> 49, d4 |-> 52, d9 |-> 57, colon |-> 58, semi |-> 59,
      lt |-> 60, gt |-> 62, A |-> 65, F |-> 70, Z |-> 90, lbrack |-> 91,
      bslash |-> 92, rbrack |-> 93, under |-> 95,
      a |-> 97, b |-> 98, c |-> 99, f |-> 102, n |-> 110, r |-> 114, t |-> 116,
      u |-> 117, x |-> 120, y |-> 121, z |-> 122, lbrace |-> 123, rbrace |-> 125,
      bs |-> 8, ff |-> 12, fwcolon |-> 65306, ellipsis |-> 8230 ]

\* ECMAScript WhiteSpace and LineTerminator code units: String.prototype.trim and \s
WhiteSpace == {9, 10, 11, 12, 13, 32, 160, 5760, 8232, 8233, 8239, 8287, 12288, 65279} \cup (8192..8202)

IsSpace(c) == c \in WhiteSpace

IsDigit(c) == c >= Ch.d0 /\ c <= Ch.d9

IsLetter(c) == (c >= Ch.A /\ c <= Ch.Z) \/ (c >= Ch.a /\ c <= Ch.z)

\* \w or "-"
IsNameChar(c) == IsLetter(c) \/ IsDigit(c) \/ c = Ch.under \/ c = Ch.minus

\* s.slice(from - 1, to) with 1-based inclusive positions
Slice(s, from, to) == IF from > to THEN <<>> ELSE SubSeq(s, from, to)

RECURSIVE TrimStart(_)
TrimStart(s) == IF s # <<>> /\ IsSpace(Head(s)) THEN TrimStart(Tail(s)) ELSE s

RECURSIVE TrimEnd(_)
TrimEnd(s) == IF s # <<>> /\ IsSpace(s[Len(s)]) THEN TrimEnd(SubSeq(s, 1, Len(s) - 1)) ELSE s

\* String.prototype.trim
Trim(s) == TrimEnd(TrimStart(s))

\* String.prototype.toLowerCase on the code units A-Z
ToLowerCase(s) == [i \in 1..Len(s) |-> IF s[i] >= Ch.A /\ s[i] <= Ch.Z THEN s[i] + 32 ELSE s[i]]

\* String.prototype.includes
Includes(s, sub) ==
    \E i \in 0..(Len(s) - Len(sub)) : SubSeq(s, i + 1, i + Len(sub)) = sub

\* value.replace(/\s+/g, " ")
RECURSIVE CollapseSpaces(_)
CollapseSpaces(s) ==
    IF s = <<>> THEN <<>>
    ELSE IF IsSpace(Head(s)) THEN <<Ch.sp>> \o CollapseSpaces(TrimStart(s))
    ELSE <<Head(s)>> \o CollapseSpaces(Tail(s))

\* value.split(/\n+/): the pieces between maximal runs of line feeds
RECURSIVE SplitLinesFrom(_, _)
SplitLinesFrom(s, cur) ==
    IF s = <<>> THEN <<cur>>
    ELSE IF Head(s) = Ch.lf
         THEN LET RECURSIVE SkipLf(_)
                  SkipLf(r) == IF r # <<>> /\ Head(r) = Ch.lf THEN SkipLf(Tail(r)) ELSE r
              IN <<cur>> \o SplitLinesFrom(SkipLf(s), <<>>)
         ELSE SplitLinesFrom(Tail(s), Append(cur, Head(s)))

SplitLines(s) == SplitLinesFrom(s, <<>>)

\* parts.join(sep)
RECURSIVE Join(_, _)
Join(parts, sep) ==
    IF parts = <<>> THEN <<>>
    ELSE IF Len(parts) = 1 THEN parts[1]
    ELSE parts[1] \o sep \o Join(Tail(parts), sep)

\* the least position of a set of positions, or 0 when there is none (find / findIndex, 1-based)
FirstOf(positions) ==
    IF positions = {} THEN 0 ELSE CHOOSE i \in positions : \A j \in positions : i <= j

---------------------------------------------------------------------------
(* workspaceCore.ts                                                        *)

UNDO_STACK_LIMIT == 80

\* "未命名标题"
DEFAULT_DOCUMENT_TITLE == <<26410, 21629, 21517, 26631, 39064>>

\* HTML_TAG_PATTERN.test(value): /<([a-z][\w-]*)(\s[^>]*)?>/i
HTML_TAG_PATTERN(s) ==
    \E i \in 1..Len(s) :
        /\ s[i] = Ch.lt
        /\ i + 1 <= Len(s) /\ IsLetter(s[i + 1])
        /\ \E e \in (i + 2)..Len(s) :
              /\ \A k \in (i + 2)..(e - 1) : IsNameChar(s[k])
              /\ \/ s[e] = Ch.gt
                 \/ IsSpace(s[e]) /\ \E k \in (e + 1)..Len(s) : s[k] = Ch.gt

\* sanitizeHtml: the branch taken without a DOM (typeof window === "undefined");
\* the DOM branch parses markup with the browser, which is not code of the repository
sanitizeHtml(input) == IF Trim(input) = <<>> THEN <<>> ELSE input

\* htmlToPlainText: text without markup is returned as it is
htmlToPlainText(value) == IF Trim(value) = <<>> THEN <<>> ELSE value

RECURSIVE escapeHtml(_)
escapeHtml(s) ==
    IF s = <<>> THEN <<>>
    ELSE (CASE Head(s) = Ch.amp -> <<Ch.amp, Ch.a, 109, 112, Ch.semi>>
            [] Head(s) = Ch.lt -> <<Ch.amp, 108, Ch.t, Ch.semi>>
            [] Head(s) = Ch.gt -> <<Ch.amp, 103, Ch.t, Ch.semi>>
            [] Head(s) = Ch.quote -> <<Ch.amp, 113, Ch.u, 111, Ch.t, Ch.semi>>
            [] Head(s) = Ch.apos -> <<Ch.amp, Ch.hash, 51, Ch.d9, Ch.semi>>
            [] OTHER -> <<Head(s)>>) \o escapeHtml(Tail(s))

RECURSIVE ReplaceLfByBr(_)
ReplaceLfByBr(s) ==
    IF s = <<>> THEN <<>>
    ELSE (IF Head(s) = Ch.lf THEN <<Ch.lt, Ch.b, Ch.r, Ch.sp, Ch.slash, Ch.gt>> ELSE <<Head(s)>>)
         \o ReplaceLfByBr(Tail(s))

toHtmlSegment(value) ==
    IF Trim(value) = <<>> THEN <<>>
    ELSE IF HTML_TAG_PATTERN(Trim(value)) THEN sanitizeHtml(value)
    ELSE <<Ch.lt, 112, Ch.gt>> \o ReplaceLfByBr(escapeHtml(value)) \o <<Ch.lt, Ch.slash, 112, Ch.gt>>

appendBoardContent(existing, addition) ==
    IF Trim(addition) = <<>> THEN existing
    ELSE IF Trim(existing) = <<>> THEN addition
    ELSE IF HTML_TAG_PATTERN(existing) \/ HTML_TAG_PATTERN(addition)
         THEN toHtmlSegment(existing) \o toHtmlSegment(addition)
    ELSE existing \o <<Ch.lf>> \o addition

RECURSIVE DedupeLines(_, _)
DedupeLines(lines, kept) ==
    IF lines = <<>> THEN kept
    ELSE LET key == Trim(Head(lines))
         IN IF key = <<>> \/ (\E i \in 1..Len(kept) : kept[i] = key)
            THEN DedupeLines(Tail(lines), kept)
            ELSE DedupeLines(Tail(lines), Append(kept, key))

dedupePlainTextLines(value) == Join(DedupeLines(SplitLines(value), <<>>), <<Ch.lf>>)

mergeContentWithoutDuplication(existing, incoming) ==
    LET left == Trim(existing)
        right == Trim(incoming)
        leftPlain == Trim(CollapseSpaces(htmlToPlainText(left)))
        rightPlain == Trim(CollapseSpaces(htmlToPlainText(right)))
        merged == appendBoardContent(existing, incoming)
        hasHtml == HTML_TAG_PATTERN(existing) \/ HTML_TAG_PATTERN(incoming)
    IN  IF right = <<>> THEN existing
        ELSE IF left = <<>> THEN incoming
        ELSE IF leftPlain # <<>> /\ rightPlain # <<>>
                /\ (leftPlain = rightPlain \/ Includes(leftPlain, rightPlain)) THEN existing
        ELSE IF leftPlain # <<>> /\ rightPlain # <<>> /\ Includes(rightPlain, leftPlain) THEN incoming
        ELSE IF left = right \/ Includes(left, right) THEN existing
        ELSE IF Includes(right, left) THEN incoming
        ELSE IF hasHtml THEN merged ELSE dedupePlainTextLines(merged)

\* /^小节\s+\d+$/i.test(trimmed)
IsSectionNumberTitle(s) ==
    /\ Len(s) >= 4
    /\ s[1] = 23567 /\ s[2] = 33410
    /\ \E k \in 3..(Len(s) - 1) :
          /\ \A i \in 3..k : IsSpace(s[i])
          /\ \A i \in (k + 1)..Len(s) : IsDigit(s[i])

isPlaceholderTitle(value) ==
    LET trimmed == Trim(value)
    IN  \/ trimmed = <<>>
        \/ trimmed = DEFAULT_DOCUMENT_TITLE
        \/ IsSectionNumberTitle(trimmed)

\* firstLine.replace(/^主题[:：]\s*/i, "")
StripTopicPrefix(line) ==
    IF Len(line) >= 3 /\ line[1] = 20027 /\ line[2] = 39064 /\ line[3] \in {Ch.colon, Ch.fwcolon}
    THEN TrimStart(SubSeq(line, 4, Len(line)))
    ELSE line

\* a choice that would take the label of the content before the title of a later section
pickAutoDocumentTitleContentFirst(sections) ==
    LET other == FirstOf({i \in 2..Len(sections) : ~isPlaceholderTitle(sections[i].title)})
        texts == [i \in 1..Len(sections) |-> htmlToPlainText(sections[i].content)]
        split == SplitLines(Join(texts, <<Ch.lf>>))
        lines == [i \in 1..Len(split) |-> Trim(split[i])]
        first == FirstOf({i \in 1..Len(lines) : lines[i] # <<>>})
        normalized == StripTopicPrefix(lines[first])
    IN  IF first > 0 /\ normalized # <<>>
        THEN (IF Len(normalized) > 24 THEN SubSeq(normalized, 1, 24) \o <<Ch.ellipsis>> ELSE normalized)
        ELSE IF other > 0 THEN Trim(sections[other].title)
        ELSE <<>>

pickAutoDocumentTitle(sections) ==
    LET other == FirstOf({i \in 2..Len(sections) : ~isPlaceholderTitle(sections[i].title)})
        texts == [i \in 1..Len(sections) |-> htmlToPlainText(sections[i].content)]
        split == SplitLines(Join(texts, <<Ch.lf>>))
        lines == [i \in 1..Len(split) |-> Trim(split[i])]
        first == FirstOf({i \in 1..Len(lines) : lines[i] # <<>>})
        normalized == StripTopicPrefix(lines[first])
    IN  IF other > 0 THEN Trim(sections[other].title)
        ELSE IF first = 0 THEN <<>>
        ELSE IF normalized = <<>> THEN <<>>
        ELSE IF Len(normalized) > 24 THEN SubSeq(normalized, 1, 24) \o <<Ch.ellipsis>>
        ELSE normalized

syncDocumentTitle(sections) ==
    IF sections = <<>> THEN sections
    ELSE IF ~isPlaceholderTitle(sections[1].title) THEN sections
    ELSE LET candidate == pickAutoDocumentTitle(sections)
         IN IF candidate = <<>> \/ candidate = sections[1].title THEN sections
            ELSE [sections EXCEPT ![1].title = candidate]

\* normalizedSections !== nextSections: syncDocumentTitle returns a new array exactly when it renames
SyncRenames(sections) == syncDocumentTitle(sections) # sections

\* `## ${s.title}\n\n${s.content}` joined by "\n\n"
RawMarkdown(sections) ==
    Join([i \in 1..Len(sections) |->
            <<Ch.hash, Ch.hash, Ch.sp>> \o sections[i].title \o <<Ch.lf, Ch.lf>> \o sections[i].content],
         <<Ch.lf, Ch.lf>>)

getBoardContent(sections) == [sections |-> sections, rawMarkdown |-> RawMarkdown(sections)]

\* a cap that would keep the oldest snapshots instead of the most recent ones
pushUndoSnapshotKeepingOldest(stack, snapshot) ==
    IF stack # <<>> /\ stack[Len(stack)].rawMarkdown = snapshot.rawMarkdown THEN stack
    ELSE IF Len(stack) >= UNDO_STACK_LIMIT THEN stack
    ELSE Append(stack, snapshot)

pushUndoSnapshot(stack, snapshot) ==
    IF stack # <<>> /\ stack[Len(stack)].rawMarkdown = snapshot.rawMarkdown THEN stack
    ELSE LET next == Append(stack, snapshot)
         IN IF Len(next) > UNDO_STACK_LIMIT
            THEN SubSeq(next, Len(next) - UNDO_STACK_LIMIT + 1, Len(next))
            ELSE next

Has(obj, field) == field \in DOMAIN obj

\* the element of a one-element set: The({ e(x) : x \in {v} }) is e(v) with v computed once
The(S) == CHOOSE x \in S : TRUE

normalizeTitleKey(value) == ToLowerCase(CollapseSpaces(Trim(value)))

\* a resolution that would try the title before the identifier
resolveSectionIndexTitleFirst(sections, action) ==
    LET byId == IF Has(action, "section_id") /\ action.section_id # ""
                THEN FirstOf({i \in 1..Len(sections) : sections[i].id = action.section_id})
                ELSE 0
        byTitle == IF Has(action, "section_title") /\ action.section_title # <<>>
                   THEN FirstOf({i \in 1..Len(sections) :
                                    normalizeTitleKey(sections[i].title) = normalizeTitleKey(action.section_title)})
                   ELSE 0
    IN  IF byTitle > 0 THEN byTitle ELSE byId

\* a resolution that would know sections by their identifier only
resolveSectionIndexIdOnly(sections, action) ==
    IF Has(action, "section_id") /\ action.section_id # ""
    THEN FirstOf({i \in 1..Len(sections) : sections[i].id = action.section_id})
    ELSE 0

\* the 1-based index of the section an action resolves to, or 0 (the code's -1)
resolveSectionIndex(sections, action) ==
    LET byId == IF Has(action, "section_id") /\ action.section_id # ""
                THEN FirstOf({i \in 1..Len(sections) : sections[i].id = action.section_id})
                ELSE 0
        byTitle == IF Has(action, "section_title") /\ action.section_title # <<>>
                   THEN FirstOf({i \in 1..Len(sections) :
                                    normalizeTitleKey(sections[i].title) = normalizeTitleKey(action.section_title)})
                   ELSE 0
    IN  IF byId > 0 THEN byId ELSE byTitle

\* makeId(): the n-th generated identifier; distinct from every identifier an instruction carries
makeId(n) == "gen-" \o ToString(n)

\* a new section whose generated identifier would be a small number, as the stored ones are
NewAgentSectionCountingIds(action, title, content, fresh) ==
    [ id |-> IF Has(action, "section_id") THEN action.section_id ELSE "s" \o ToString(fresh),
      title |-> title, content |-> content, source |-> "ai" ]

\* a section appended by create_structure / update_section / append_section
NewAgentSection(action, title, content, fresh) ==
    [ id |-> IF Has(action, "section_id") THEN action.section_id ELSE makeId(fresh),
      title |-> title, content |-> content, source |-> "ai" ]

\* const title = action.section_title?.trim()
ActionTitle(action) == IF Has(action, "section_title") THEN Trim(action.section_title) ELSE <<>>

\* const content: action.content ?? "", sanitized when it holds markup
ActionContent(action) ==
    IF ~Has(action, "content") THEN <<>>
    ELSE IF HTML_TAG_PATTERN(Trim(action.content)) THEN sanitizeHtml(action.content)
    ELSE action.content

\* nextSections[index] = {...nextSections[index], content, source: "ai"}; didChange = true
OverwriteSection(acc, index, content) ==
    [acc EXCEPT !.sections[index].content = content,
                !.sections[index].source = "ai",
                !.didChange = TRUE]

\* nextSections = [...nextSections, {id: action.section_id ?? makeId(), ...}]; didChange = true
AppendSection(acc, action) ==
    [acc EXCEPT !.sections = Append(@, NewAgentSection(action, ActionTitle(action), ActionContent(action),
                                                       acc.fresh)),
                !.didChange = TRUE,
                !.fresh = IF Has(action, "section_id") THEN @ ELSE @ + 1]

\* a create_structure that would overwrite the content of the section it resolves to
ApplyCreateOverwriting(acc, action) ==
    IF ActionTitle(action) = <<>> THEN acc
    ELSE IF resolveSectionIndex(acc.sections, action) > 0
    THEN OverwriteSection(acc, resolveSectionIndex(acc.sections, action), ActionContent(action))
    ELSE AppendSection(acc, action)

\* if (action.action === "create_structure") { ... }
ApplyCreate(acc, action) ==
    IF ActionTitle(action) = <<>> THEN acc
    ELSE IF resolveSectionIndex(acc.sections, action) > 0
    THEN IF Trim(ActionContent(action)) # <<>>
            /\ Trim(acc.sections[resolveSectionIndex(acc.sections, action)].content) = <<>>
         THEN OverwriteSection(acc, resolveSectionIndex(acc.sections, action), ActionContent(action))
         ELSE acc
    ELSE AppendSection(acc, action)

\* an update_section that would leave the sections the user wrote alone
ApplyUpdateSparingUser(acc, action) ==
    IF resolveSectionIndex(acc.sections, action) > 0
    THEN IF acc.sections[resolveSectionIndex(acc.sections, action)].source = "user" THEN acc
         ELSE OverwriteSection(acc, resolveSectionIndex(acc.sections, action), ActionContent(action))
    ELSE IF ActionTitle(action) # <<>> THEN AppendSection(acc, action)
    ELSE acc

\* if (action.action === "update_section") { ... }
ApplyUpdate(acc, action) ==
    IF resolveSectionIndex(acc.sections, action) > 0
    THEN OverwriteSection(acc, resolveSectionIndex(acc.sections, action), ActionContent(action))
    ELSE IF ActionTitle(action) # <<>> THEN AppendSection(acc, action)
    ELSE acc

\* an append_section that would add the content without looking for duplicates
ApplyAppendWithoutMerge(acc, action) ==
    IF Trim(ActionContent(action)) = <<>> THEN acc
    ELSE IF resolveSectionIndex(acc.sections, action) > 0
    THEN OverwriteSection(acc, resolveSectionIndex(acc.sections, action),
                          appendBoardContent(acc.sections[resolveSectionIndex(acc.sections, action)].content,
                                             ActionContent(action)))
    ELSE IF ActionTitle(action) # <<>> THEN AppendSection(acc, action)
    ELSE acc

\* if (action.action === "append_section") { ... }
ApplyAppend(acc, action) ==
    IF Trim(ActionContent(action)) = <<>> THEN acc
    ELSE IF resolveSectionIndex(acc.sections, action) > 0
    THEN The({ IF nextContent = acc.sections[index].content THEN acc
               ELSE OverwriteSection(acc, index, nextContent)
               : <<index, nextContent>> \in
                   { <<i, mergeContentWithoutDuplication(acc.sections[i].content, ActionContent(action))>>
                     : i \in {resolveSectionIndex(acc.sections, action)} } })
    ELSE IF ActionTitle(action) # <<>> THEN AppendSection(acc, action)
    ELSE acc

\* a clear_section that would take the section out of the list
ApplyClearRemoving(acc, action) ==
    IF resolveSectionIndex(acc.sections, action) > 0
    THEN [acc EXCEPT !.sections = SubSeq(@, 1, resolveSectionIndex(acc.sections, action) - 1)
                                    \o SubSeq(@, resolveSectionIndex(acc.sections, action) + 1, Len(@)),
                     !.didChange = TRUE]
    ELSE acc

\* if (action.action === "clear_section" && index >= 0) { ... }
ApplyClear(acc, action) ==
    IF resolveSectionIndex(acc.sections, action) > 0
    THEN OverwriteSection(acc, resolveSectionIndex(acc.sections, action), <<>>)
    ELSE acc

\* a loop body that would count a set_template instruction as a change
ApplyOneCountingTemplate(acc, action) ==
    CASE action.action = "create_structure" -> ApplyCreate(acc, action)
      [] action.action = "update_section" -> ApplyUpdate(acc, action)
      [] action.action = "append_section" -> ApplyAppend(acc, action)
      [] action.action = "clear_section" -> ApplyClear(acc, action)
      [] OTHER -> [acc EXCEPT !.didChange = TRUE]

\* one pass of the forEach body of applyBoardActions; acc = [sections, didChange, fresh]
ApplyOne(acc, action) ==
    CASE action.action = "create_structure" -> ApplyCreate(acc, action)
      [] action.action = "update_section" -> ApplyUpdate(acc, action)
      [] action.action = "append_section" -> ApplyAppend(acc, action)
      [] action.action = "clear_section" -> ApplyClear(acc, action)
      [] OTHER -> acc

\* a loop that would stop at the first instruction that changes nothing
RECURSIVE ApplyAllAborting(_, _)
ApplyAllAborting(acc, actions) ==
    IF actions = <<>> \/ ApplyOne(acc, Head(actions)) = acc THEN acc
    ELSE ApplyAllAborting(ApplyOne(acc, Head(actions)), Tail(actions))

RECURSIVE ApplyAll(_, _)
ApplyAll(acc, actions) ==
    IF actions = <<>> THEN acc ELSE ApplyAll(ApplyOne(acc, Head(actions)), Tail(actions))

\* an applyBoardActions that would run the title post-pass on an empty batch too
applyBoardActionsAlwaysSyncing(sections, actions, fresh) ==
    The({ [ sections |-> syncDocumentTitle(done.sections),
            didChange |-> done.didChange \/ SyncRenames(done.sections),
            fresh |-> done.fresh ]
          : done \in {ApplyAll([sections |-> sections, didChange |-> FALSE, fresh |-> fresh], actions)} })

\* applyBoardActions(sections, actions); fresh counts the identifiers makeId() has handed out
applyBoardActions(sections, actions, fresh) ==
    IF actions = <<>> THEN [sections |-> sections, didChange |-> FALSE, fresh |-> fresh]
    ELSE The({ [ sections |-> syncDocumentTitle(done.sections),
                 didChange |-> done.didChange \/ SyncRenames(done.sections),
                 fresh |-> done.fresh ]
               : done \in {ApplyAll([sections |-> sections, didChange |-> FALSE, fresh |-> fresh], actions)} })

---------------------------------------------------------------------------
(* workspacePersistence.ts                                                 *)

PROFILE_LIMITS ==
    [ normal |-> [chatMessages |-> 140, boardSections |-> 40, undoStack |-> 50, redoStack |-> 25,
                  chatMessageChars |-> 2800, boardSectionChars |-> 9000, sectionTitleChars |-> 140],
      aggressive |-> [chatMessages |-> 80, boardSections |-> 24, undoStack |-> 24, redoStack |-> 12,
                      chatMessageChars |-> 1600, boardSectionChars |-> 5500, sectionTitleChars |-> 110],
      minimal |-> [chatMessages |-> 36, boardSections |-> 12, undoStack |-> 0, redoStack |-> 0,
                   chatMessageChars |-> 900, boardSectionChars |-> 2800, sectionTitleChars |-> 80] ]

\* "…[truncated]"
TruncationMarker == <<Ch.ellipsis, Ch.lbrack, Ch.t, Ch.r, Ch.u, Ch.n, Ch.c, Ch.a, Ch.t, 101, 100, Ch.rbrack>>

Max(a, b) == IF a >= b THEN a ELSE b

\* a cut that would keep as many characters as the limit and then add the marker
clampTextCuttingAtLimit(value, limit) ==
    IF Len(value) <= limit THEN value
    ELSE Slice(value, 1, limit) \o TruncationMarker

clampText(value, limit) ==
    IF Len(value) <= limit THEN value
    ELSE Slice(value, 1, Max(0, limit - 16)) \o TruncationMarker

\* array.slice(-n): the last n elements; slice(-0) is slice(0), the whole array
SliceLast(arr, n) ==
    IF n = 0 \/ Len(arr) <= n THEN arr ELSE SubSeq(arr, Len(arr) - n + 1, Len(arr))

\* array.slice(0, n) / array.slice(-n) for the constant n > 0 of compactChatMessages
SliceFirst(arr, n) == IF Len(arr) <= n THEN arr ELSE SubSeq(arr, 1, n)

compactSections(sections, limits) ==
    LET kept == SliceLast(sections, limits.boardSections)
    IN [i \in 1..Len(kept) |->
            [kept[i] EXCEPT !.title = clampText(kept[i].title, limits.sectionTitleChars),
                            !.content = clampText(kept[i].content, limits.boardSectionChars)]]

compactBoardContent(stack, limits) ==
    IF limits.undoStack = 0 THEN <<>>
    ELSE LET maxRawChars == limits.boardSections * limits.boardSectionChars
             kept == SliceLast(stack, limits.undoStack)
         IN [i \in 1..Len(kept) |->
                [rawMarkdown |-> clampText(kept[i].rawMarkdown, maxRawChars),
                 sections |-> compactSections(kept[i].sections, limits)]]

\* boardActions?.slice(-4).map(...): title and content clamped when present and non-empty
CompactMessageAction(action, limits) ==
    [f \in DOMAIN action |->
        IF f = "section_title" /\ action[f] # <<>> THEN clampText(action[f], limits.sectionTitleChars)
        ELSE IF f = "content" /\ action[f] # <<>> THEN clampText(action[f], limits.boardSectionChars)
        ELSE action[f]]

\* marginNotes?.slice(0, 6).map(...)
CompactMarginNote(note) ==
    [f \in DOMAIN note |->
        IF f = "anchor" /\ note[f] # <<>> THEN clampText(note[f], 120)
        ELSE IF f = "comment" THEN clampText(note[f], 300)
        ELSE IF f = "suggestion" /\ note[f] # <<>> THEN clampText(note[f], 280)
        ELSE IF f = "dimension" /\ note[f] # <<>> THEN clampText(note[f], 80)
        ELSE note[f]]

\* one message of compactChatMessages (nextQuestions and rubric, which no handler of the
\* model reads, are not carried by the model's messages)
CompactMessage(message, limits) ==
    [f \in DOMAIN message |->
        IF f = "content" THEN clampText(message[f], limits.chatMessageChars)
        ELSE IF f = "boardActions"
             THEN LET kept == SliceLast(message[f], 4)
                  IN [i \in 1..Len(kept) |-> CompactMessageAction(kept[i], limits)]
        ELSE IF f = "marginNotes"
             THEN LET kept == SliceFirst(message[f], 6)
                  IN [i \in 1..Len(kept) |-> CompactMarginNote(kept[i])]
        ELSE message[f]]

compactChatMessages(messages, limits) ==
    LET kept == SliceLast(messages, limits.chatMessages)
    IN [i \in 1..Len(kept) |-> CompactMessage(kept[i], limits)]

\* the six fields the persisted snapshot picks from the workspace state
createPersistedSnapshot(st) ==
    [ sessionId |-> st.sessionId, chatMessages |-> st.chatMessages,
      boardSections |-> st.boardSections, undoStack |-> st.undoStack,
      redoStack |-> st.redoStack, errorState |-> st.errorState ]

compactPersistedSnapshot(snapshot, profile) ==
    LET limits == PROFILE_LIMITS[profile]
    IN [ sessionId |-> snapshot.sessionId,
         chatMessages |-> compactChatMessages(snapshot.chatMessages, limits),
         boardSections |-> compactSections(snapshot.boardSections, limits),
         undoStack |-> compactBoardContent(snapshot.undoStack, limits),
         redoStack |-> compactBoardContent(SliceLast(snapshot.redoStack, limits.redoStack),
                                           [limits EXCEPT !.undoStack = limits.redoStack]),
         errorState |-> snapshot.errorState ]

\* a loop that would try the minimal profile before the aggressive one
ProfilesMinimalSecond == <<"normal", "minimal", "aggressive">>

\* const profiles: CompactProfile[] = ["normal", "aggressive", "minimal"]
Profiles == <<"normal", "aggressive", "minimal">>

\* storage.setItem(key, value) returns (TRUE) or throws (FALSE). A storage is a message
\* quota (the test's: it throws when the payload holds more than max messages) or a fixed
\* outcome for the first, second and third write
SetItemSucceeds(behaviour, attempt, payload) ==
    IF behaviour.kind = "quota" THEN Len(payload.chatMessages) <= behaviour.max
    ELSE behaviour.accept[attempt]

\* the start of persistWorkspaceSnapshot(storage, key, snapshot)
PersistStart(snapshot, behaviour) ==
    [ phase |-> "try", snapshot |-> snapshot, behaviour |-> behaviour, index |-> 1,
      writes |-> <<>>, stored |-> <<>>, result |-> "none" ]

\* a catch block that would rethrow to the caller
OnWriteErrorRethrow(p) == [p EXCEPT !.phase = "threw"]

\* the catch block: "try the next smaller profile"; after the loop, return "failed"
OnWriteError(p) ==
    IF p.index < Len(Profiles) THEN [p EXCEPT !.index = p.index + 1]
    ELSE [p EXCEPT !.phase = "returned", !.result = "failed"]

\* one pass of the for loop: compact, setItem, and return on success
PersistAttempt(p) ==
    LET profile == Profiles[p.index]
        payload == compactPersistedSnapshot(p.snapshot, profile)
        ok == SetItemSucceeds(p.behaviour, Len(p.writes) + 1, payload)
        tried == [p EXCEPT !.writes = Append(p.writes, [profile |-> profile, ok |-> ok])]
    IN IF ok THEN [tried EXCEPT !.phase = "returned", !.result = profile, !.stored = <<payload>>]
       ELSE OnWriteError(tried)

RECURSIVE PersistRun(_)
PersistRun(p) == IF p.phase = "try" THEN PersistRun(PersistAttempt(p)) ELSE p

\* persistWorkspaceSnapshot run to its return
persistWorkspaceSnapshot(snapshot, behaviour) == PersistRun(PersistStart(snapshot, behaviour))

---------------------------------------------------------------------------
(* Values the specifications draw their inputs from                        *)

MaxSections == 2
MaxBatch == 2

StrA == <<Ch.A>>
StrB == <<66>>
StrX == <<Ch.x>>
StrY == <<Ch.y>>
StrSpacedA == <<Ch.sp, Ch.a, Ch.sp>>
\* "<p>x</p>", "x\ny", "x y"
StrHtmlX == <<Ch.lt, 112, Ch.gt, Ch.x, Ch.lt, Ch.slash, 112, Ch.gt>>
StrLinesXY == <<Ch.x, Ch.lf, Ch.y>>
StrSpacedXY == <<Ch.x, Ch.sp, Ch.y>>

\* the sections an input section list is made of; identifiers are unique within a list;
\* the three provenances of BoardSection.source occur
SectionUniverse ==
    { [id |-> i, title |-> t, content |-> c,
       source |-> IF i = "s2" THEN "user" ELSE IF t = StrA THEN "ai" ELSE "pinned"] :
        i \in {"s1", "s2"}, t \in {StrA, StrB, DEFAULT_DOCUMENT_TITLE}, c \in {<<>>, StrX, StrHtmlX} }

RECURSIVE SeqsUpTo(_, _)
SeqsUpTo(S, n) ==
    IF n = 0 THEN {<<>>}
    ELSE LET shorter == SeqsUpTo(S, n - 1)
         IN shorter \cup {Append(q, e) : q \in {r \in shorter : Len(r) = n - 1}, e \in S}

UniqueIds(sections) ==
    \A i, j \in 1..Len(sections) : sections[i].id = sections[j].id => i = j

SectionLists == {l \in SeqsUpTo(SectionUniverse, MaxSections) : UniqueIds(l)}

\* instructions as the validated response carries them (server/src/schemas.ts), and ones the
\* engine must defend against (unresolved targets)
Instructions ==
    { [action |-> "create_structure", section_id |-> "s3", section_title |-> StrB, content |-> StrX],
      [action |-> "create_structure", section_title |-> StrSpacedA, content |-> StrY],
      [action |-> "update_section", section_id |-> "s1", content |-> StrX],
      [action |-> "update_section", section_title |-> StrB, content |-> StrY],
      [action |-> "update_section", section_id |-> "s9", content |-> StrX],
      [action |-> "append_section", section_id |-> "s1", content |-> StrX],
      [action |-> "append_section", section_id |-> "s2", section_title |-> StrA, content |-> StrY],
      [action |-> "append_section", section_id |-> "s1", content |-> StrLinesXY],
      [action |-> "append_section", section_id |-> "s1", content |-> StrSpacedXY],
      [action |-> "append_section", section_id |-> "s9", content |-> StrX],
      [action |-> "create_structure", section_id |-> "s3", content |-> StrX],
      [action |-> "clear_section", section_id |-> "s1"],
      [action |-> "clear_section", section_title |-> StrY],
      [action |-> "set_template", template_type |-> "table"] }

Batches == SeqsUpTo(Instructions, MaxBatch)

---------------------------------------------------------------------------
(* Values of the variables a specification does not use                    *)

CoreOff == [phase |-> "off"]
StateOff == [phase |-> "off"]
UiOff == [phase |-> "off"]
TurnOff == [phase |-> "off"]
StorageOff == [phase |-> "off"]
PersistOff == [phase |-> "off"]
DecOff == [phase |-> "off"]
HistOff == [phase |-> "off"]

---------------------------------------------------------------------------
(* SpecCore: applyBoardActions applied to a section list and a batch       *)

CoreInit ==
    /\ core \in {[phase |-> "input", sections |-> l, actions |-> b] : l \in SectionLists, b \in Batches}
    /\ state = StateOff /\ ui = UiOff /\ turn = TurnOff /\ storage = StorageOff
    /\ persist = PersistOff /\ dec = DecOff /\ hist = HistOff

CoreApply ==
    /\ core.phase = "input"
    /\ core' = [phase |-> "done", sections |-> core.sections, actions |-> core.actions,
                result |-> applyBoardActions(core.sections, core.actions, 1),
                \* steps[k]: nextSections and didChange after the k-th pass of the forEach
                steps |-> [k \in 0..Len(core.actions) |->
                             ApplyAll([sections |-> core.sections, didChange |-> FALSE, fresh |-> 1],
                                      SubSeq(core.actions, 1, k))]]
    /\ UNCHANGED <<state, ui, turn, storage, persist, dec, hist>>

CoreNext == CoreApply

SpecCore == CoreInit /\ [][CoreNext]_vars

\* the projection of a section list the claims compare: identifier, title, content
Visible(sections) ==
    [i \in 1..Len(sections) |->
        [id |-> sections[i].id, title |-> sections[i].title, content |-> sections[i].content]]

\* C1 (as claimed): a non-empty batch whose result has the same sections with the same
\* titles and contents as its input reports didChange = false
C1_NoNetChangeReportsNoChange ==
    (core.phase = "done" /\ core.actions # <<>>
        /\ Visible(core.result.sections) = Visible(core.sections))
    => ~core.result.didChange

\* C12: an empty batch applied to any section list, one whose lead title is still a
\* placeholder included, returns that same list and didChange = false
C12_EmptyBatchReturnsSameList ==
    (core.phase = "done" /\ core.actions = <<>>)
    => (core.result.sections = core.sections /\ ~core.result.didChange)

\* an empty batch met a list whose placeholder lead title the post-pass would have renamed
C12_EmptyBatchOnPlaceholderLead ==
    /\ core.phase = "done" /\ core.actions = <<>> /\ core.sections # <<>>
    /\ isPlaceholderTitle(core.sections[1].title) /\ SyncRenames(core.sections)

\* the whitespace-normalized plain text mergeContentWithoutDuplication compares
NormalizedPlain(value) == Trim(CollapseSpaces(htmlToPlainText(Trim(value))))

\* the k-th instruction of the batch is an append_section that resolves to a section
AppendResolvesAt(k) ==
    /\ core.actions[k].action = "append_section"
    /\ resolveSectionIndex(core.steps[k - 1].sections, core.actions[k]) > 0

\* the section the k-th instruction resolves to, before and after that instruction
TargetBefore(k) == core.steps[k - 1].sections[resolveSectionIndex(core.steps[k - 1].sections, core.actions[k])]
TargetAfter(k) == core.steps[k].sections[resolveSectionIndex(core.steps[k - 1].sections, core.actions[k])]

\* an append whose normalized plain text is identical to or contained in that of its
\* section leaves the section's content as it is and does not set didChange
C13_ContainedAppendChangesNothing ==
    core.phase = "done" =>
        \A k \in 1..Len(core.actions) :
            (AppendResolvesAt(k)
                /\ Includes(NormalizedPlain(TargetBefore(k).content), NormalizedPlain(core.actions[k].content)))
            => (TargetAfter(k).content = TargetBefore(k).content
                /\ core.steps[k].didChange = core.steps[k - 1].didChange)

\* the same append applied a second time does not change the section again
C13_SecondAppendChangesNothing ==
    core.phase = "done" =>
        \A k \in 2..Len(core.actions) :
            (AppendResolvesAt(k) /\ core.actions[k] = core.actions[k - 1])
            => TargetAfter(k).content = TargetBefore(k).content

TemplateOnlyBatch ==
    core.actions # <<>> /\ \A k \in 1..Len(core.actions) : core.actions[k].action = "set_template"

\* C14 (as claimed): a batch of set_template instructions only returns the sections with the
\* same identifiers, titles, contents and provenance in the same order, and didChange = false
C14_TemplateOnlyBatchLeavesSections ==
    (core.phase = "done" /\ TemplateOnlyBatch)
    => (core.result.sections = core.sections /\ ~core.result.didChange)

\* C14 (amended): a batch of set_template instructions only keeps the identifiers, contents
\* and provenance of the sections and their order, and every title but a placeholder title
\* of the lead section, which the title post-pass may replace; didChange is true exactly
\* when that title was replaced
C14_TemplateOnlyBatchOnlyRenamesLead ==
    (core.phase = "done" /\ TemplateOnlyBatch)
    => /\ Len(core.result.sections) = Len(core.sections)
       /\ \A i \in 1..Len(core.sections) :
             /\ core.result.sections[i] = [core.sections[i] EXCEPT !.title = core.result.sections[i].title]
             /\ (i > 1 \/ ~isPlaceholderTitle(core.sections[i].title))
                   => core.result.sections[i].title = core.sections[i].title
       /\ core.result.didChange <=> (core.result.sections # core.sections)

\* a batch of set_template instructions only came back with a renamed lead section
C14_TemplateOnlyBatchRenamedLead ==
    /\ core.phase = "done" /\ TemplateOnlyBatch
    /\ core.result.sections # core.sections /\ core.result.didChange

\* the section lists before and after the k-th instruction of the batch
SectionsBefore(k) == core.steps[k - 1].sections
SectionsAfter(k) == core.steps[k].sections

\* the positions of the sections whose identifier is the one the k-th instruction carries
MatchesById(k) ==
    { i \in 1..Len(SectionsBefore(k)) :
        Has(core.actions[k], "section_id") /\ SectionsBefore(k)[i].id = core.actions[k].section_id }

\* the positions of the sections whose title is the one the k-th instruction carries, after
\* trimming, collapsing inner whitespace and lower-casing
MatchesByTitle(k) ==
    { i \in 1..Len(SectionsBefore(k)) :
        /\ Has(core.actions[k], "section_title")
        /\ ToLowerCase(CollapseSpaces(Trim(SectionsBefore(k)[i].title)))
             = ToLowerCase(CollapseSpaces(Trim(core.actions[k].section_title))) }

\* the k-th instruction carries a title that is not blank
CarriesTitle(k) ==
    Has(core.actions[k], "section_title") /\ Trim(core.actions[k].section_title) # <<>>

\* the section the k-th instruction is to resolve to: identifier first, title second, 0 for none
ExpectedTarget(k) ==
    IF MatchesById(k) # {} THEN FirstOf(MatchesById(k)) ELSE FirstOf(MatchesByTitle(k))

\* C15: an instruction acts on the section its identifier names, else on the first section
\* its normalized title names, else on no section of the list: an update or a clear marks
\* exactly that section, and no instruction changes any other section of the list
C15_IdentifierFirstThenTitle ==
    core.phase = "done" =>
        \A k \in 1..Len(core.actions) :
            /\ Len(SectionsAfter(k)) >= Len(SectionsBefore(k))
            /\ \A i \in 1..Len(SectionsBefore(k)) :
                  i # ExpectedTarget(k) => SectionsAfter(k)[i] = SectionsBefore(k)[i]
            /\ (ExpectedTarget(k) > 0 /\ core.actions[k].action \in {"update_section", "clear_section"})
                  => /\ SectionsAfter(k)[ExpectedTarget(k)].source = "ai"
                     /\ SectionsAfter(k)[ExpectedTarget(k)].content = ActionContent(core.actions[k])
            /\ (ExpectedTarget(k) = 0 /\ core.actions[k].action = "update_section" /\ CarriesTitle(k))
                  => Len(SectionsAfter(k)) = Len(SectionsBefore(k)) + 1

\* an instruction changed the section its identifier names while its title names another one
C15_IdentifierBeatsTitle ==
    /\ core.phase = "done"
    /\ \E k \in 1..Len(core.actions) :
          /\ MatchesById(k) # {} /\ MatchesByTitle(k) # {} /\ MatchesById(k) \cap MatchesByTitle(k) = {}
          /\ SectionsAfter(k)[ExpectedTarget(k)] # SectionsBefore(k)[ExpectedTarget(k)]

\* the section a create, update or append adds for the k-th instruction when it resolves to none
NewSectionOf(k, title) ==
    [ id |-> IF Has(core.actions[k], "section_id") THEN core.actions[k].section_id
             ELSE makeId(core.steps[k - 1].fresh),
      title |-> title, content |-> ActionContent(core.actions[k]), source |-> "ai" ]

\* what a create_structure does to the section it resolves to: nothing, or it fills blank content
CreateOnExisting(k) ==
    /\ Len(SectionsAfter(k)) = Len(SectionsBefore(k))
    /\ \/ SectionsAfter(k) = SectionsBefore(k)
       \/ /\ Trim(SectionsBefore(k)[ExpectedTarget(k)].content) = <<>>
          /\ SectionsAfter(k) = [SectionsBefore(k) EXCEPT ![ExpectedTarget(k)].content = ActionContent(core.actions[k]),
                                                          ![ExpectedTarget(k)].source = "ai"]

C18_NeverDeletesOrReorders ==
    core.phase = "done" =>
        /\ Len(core.result.sections) >= Len(core.sections)
        /\ \A i \in 1..Len(core.sections) : core.result.sections[i].id = core.sections[i].id
        /\ \A k \in 1..Len(core.actions) :
              (core.actions[k].action = "clear_section" /\ ExpectedTarget(k) > 0)
              => SectionsAfter(k) = [SectionsBefore(k) EXCEPT ![ExpectedTarget(k)].content = <<>>,
                                                              ![ExpectedTarget(k)].source = "ai"]

\* a clear_section emptied the first of two sections and the batch then appended a third
C18_ClearedInPlaceThenAppended ==
    /\ core.phase = "done" /\ Len(core.sections) = 2 /\ Len(core.actions) = 2
    /\ core.actions[1].action = "clear_section" /\ ExpectedTarget(1) = 1
    /\ core.sections[1].content # <<>> /\ core.result.sections[1].content = <<>>
    /\ Len(core.result.sections) = 3

\* the k-th instruction cannot be resolved and has no creation fallback
NoTargetNoFallback(k) ==
    \/ core.actions[k].action = "clear_section" /\ ExpectedTarget(k) = 0
    \/ /\ core.actions[k].action \in {"update_section", "append_section"}
       /\ ExpectedTarget(k) = 0 /\ ~CarriesTitle(k)
    \/ core.actions[k].action = "create_structure" /\ ~CarriesTitle(k)

\* C19: an instruction that cannot be resolved and has no creation fallback changes
\* nothing, and every later instruction of the batch is applied, in order, to what the
\* instructions before the unresolved one left, up to the result of the batch
C19_UnresolvedIsNoOpForItselfOnly ==
    core.phase = "done" =>
        \A k \in 1..Len(core.actions) :
            NoTargetNoFallback(k)
            => /\ core.steps[k] = core.steps[k - 1]
               /\ \A j \in (k + 1)..Len(core.actions) :
                     core.steps[j] = ApplyOne(core.steps[j - 1], core.actions[j])
               /\ core.result.sections = syncDocumentTitle(core.steps[Len(core.actions)].sections)

\* an instruction without target and fallback was followed by one that changed the list
C19_LaterInstructionApplied ==
    /\ core.phase = "done" /\ Len(core.actions) = 2
    /\ NoTargetNoFallback(1) /\ core.steps[1] = core.steps[0]
    /\ core.steps[2].sections # core.steps[1].sections

---------------------------------------------------------------------------
(* SpecPersist: persistWorkspaceSnapshot, one pass of its loop per step, over    *)
(* snapshots of several sizes and storages of several behaviours                 *)

\* two decimal digits
Digits2(k) == <<Ch.d0 + (k \div 10), Ch.d0 + (k % 10)>>

\* the k-th message of a long conversation
MessageNo(k) ==
    [ id |-> "m" \o ToString(k), role |-> IF k % 2 = 1 THEN "user" ELSE "assistant",
      content |-> Digits2(k % 100) ]

MessageCounts == {0, 36, 37, 80, 81, 140, 141, 180}

ChatOfLength(n) == [k \in 1..n |-> MessageNo(k)]

\* the board content whose one section holds the text of k
ContentNo(k) ==
    getBoardContent(<<[id |-> "s1", title |-> StrA, content |-> Digits2(k), source |-> "user"]>>)

\* a history stack of n entries, pairwise different from their neighbours, except that
\* with dup > 0 entry dup repeats the entry before it
StackOf(n, dup) ==
    [k \in 1..n |-> IF dup > 0 /\ k >= dup THEN ContentNo(k - 1) ELSE ContentNo(k)]

StackShapes ==
    { [n |-> 0, dup |-> 0], [n |-> 2, dup |-> 0], [n |-> 2, dup |-> 2], [n |-> 3, dup |-> 2],
      [n |-> 12, dup |-> 0], [n |-> 13, dup |-> 13], [n |-> 24, dup |-> 0], [n |-> 25, dup |-> 2],
      [n |-> 26, dup |-> 26], [n |-> 50, dup |-> 0], [n |-> 51, dup |-> 40], [n |-> 60, dup |-> 0] }

RedoShapes ==
    { [n |-> 0, dup |-> 0], [n |-> 2, dup |-> 2], [n |-> 13, dup |-> 0], [n |-> 26, dup |-> 3] }

PersistSnapshots ==
    { [ sessionId |-> "session", chatMessages |-> ChatOfLength(n),
        boardSections |-> <<[id |-> "s1", title |-> StrA, content |-> StrX, source |-> "user"]>>,
        undoStack |-> StackOf(u.n, u.dup), redoStack |-> StackOf(r.n, r.dup),
        errorState |-> [hasError |-> FALSE, retryCount |-> 0] ]
      : n \in MessageCounts, u \in StackShapes, r \in RedoShapes }

StorageBehaviours ==
    { [kind |-> "quota", max |-> m] : m \in {-1, 36, 80, 140, 180} }
        \cup { [kind |-> "outcomes", accept |-> a] : a \in [1..3 -> BOOLEAN] }

PersistInit ==
    /\ persist \in { PersistStart(s, b) : s \in PersistSnapshots, b \in StorageBehaviours }
    /\ core = CoreOff /\ state = StateOff /\ ui = UiOff /\ turn = TurnOff
    /\ storage = StorageOff /\ dec = DecOff /\ hist = HistOff

\* a pass of the loop whose write succeeds: the function returns the profile
PersistWrite ==
    /\ persist.phase = "try"
    /\ PersistAttempt(persist).phase = "returned"
    /\ PersistAttempt(persist).result # "failed"
    /\ persist' = PersistAttempt(persist)
    /\ UNCHANGED <<core, state, ui, turn, storage, dec, hist>>

\* a pass whose write throws, with a smaller profile left to try
PersistRetry ==
    /\ persist.phase = "try"
    /\ PersistAttempt(persist).phase # "returned"
    /\ persist' = PersistAttempt(persist)
    /\ UNCHANGED <<core, state, ui, turn, storage, dec, hist>>

\* the last pass throws too: the function returns "failed"
PersistGiveUp ==
    /\ persist.phase = "try"
    /\ PersistAttempt(persist).result = "failed"
    /\ persist' = PersistAttempt(persist)
    /\ UNCHANGED <<core, state, ui, turn, storage, dec, hist>>

PersistNext == PersistWrite \/ PersistRetry \/ PersistGiveUp

SpecPersist == PersistInit /\ [][PersistNext]_vars

AttemptedProfiles == [i \in 1..Len(persist.writes) |-> persist.writes[i].profile]

Rejects80 == [kind |-> "quota", max |-> 80]

\* C5: the profiles are attempted in the order normal, aggressive, minimal; a write that
\* succeeds is the last write and the function returns its profile; against a storage that
\* rejects more than 80 messages a snapshot of 180 messages is stored under "aggressive"
\* with at most 80 messages, after a failed "normal" attempt.
C5_ProfilesInOrderFirstSuccessReturned ==
    persist.phase # "off" =>
        /\ AttemptedProfiles = SubSeq(<<"normal", "aggressive", "minimal">>, 1, Len(persist.writes))
        /\ \A i \in 1..Len(persist.writes) :
                persist.writes[i].ok =>
                    /\ i = Len(persist.writes)
                    /\ persist.phase = "returned"
                    /\ persist.result = persist.writes[i].profile
        /\ (persist.phase = "returned" /\ persist.result # "failed") =>
                /\ persist.writes[Len(persist.writes)].ok
                /\ persist.stored = <<compactPersistedSnapshot(persist.snapshot, persist.result)>>
        /\ (persist.phase = "returned" /\ persist.behaviour = Rejects80
                /\ Len(persist.snapshot.chatMessages) = 180) =>
                /\ persist.result = "aggressive"
                /\ persist.writes = <<[profile |-> "normal", ok |-> FALSE],
                                      [profile |-> "aggressive", ok |-> TRUE]>>
                /\ Len(persist.stored[1].chatMessages) <= 80

C5_FallbackToAggressiveReached ==
    /\ persist.phase = "returned"
    /\ persist.behaviour = Rejects80
    /\ Len(persist.snapshot.chatMessages) = 180
    /\ persist.result = "aggressive"
    /\ Len(persist.stored[1].chatMessages) = 80

AllWritesFailed ==
    /\ Len(persist.writes) = 3
    /\ \A i \in 1..3 : ~persist.writes[i].ok

\* C6: when all three writes fail the function returns "failed" after exactly three
\* attempts, it returns "failed" in no other case, and no exception leaves it.
C6_FailedExactlyWhenAllThreeWritesFail ==
    persist.phase # "off" =>
        /\ persist.phase \in {"try", "returned"}
        /\ persist.result = "failed" <=> AllWritesFailed
        /\ persist.result = "failed" => persist.phase = "returned"
        /\ (persist.phase = "try" /\ persist.writes # <<>>) =>
                /\ Len(persist.writes) < 3
                /\ \A i \in 1..Len(persist.writes) : ~persist.writes[i].ok

C6_TotalFailureReached ==
    /\ persist.phase = "returned"
    /\ persist.result = "failed"
    /\ AttemptedProfiles = <<"normal", "aggressive", "minimal">>
    /\ persist.stored = <<>>

\* the entries of a stack that differ in content from the entry before them
DedupeAdjacent(stack) ==
    LET keep == {i \in 1..Len(stack) : i = 1 \/ stack[i].rawMarkdown # stack[i - 1].rawMarkdown}
        nth(k) == CHOOSE i \in keep : Cardinality({j \in keep : j <= i}) = k
    IN [k \in 1..Cardinality(keep) |-> stack[nth(k)]]

\* C7 (as claimed): the stored undo and redo stacks are the input stacks with every entry
\* that repeats its immediate predecessor removed, then cut to the most recent entries up
\* to the profile's depth, in their original order.
C7_StacksDedupedThenCapped ==
    (persist.phase = "returned" /\ persist.result # "failed") =>
        LET limits == PROFILE_LIMITS[persist.result]
        IN /\ persist.stored[1].undoStack
                = compactBoardContent(DedupeAdjacent(persist.snapshot.undoStack), limits)
           /\ persist.stored[1].redoStack
                = compactBoardContent(DedupeAdjacent(persist.snapshot.redoStack),
                                      [limits EXCEPT !.undoStack = limits.redoStack])

---------------------------------------------------------------------------
(* Workspace.tsx: the handlers of DualPaneWorkspace as functions of the state    *)

\* BoardPane renders a missing templateType as "document"
DefaultBoardTemplate == "document"

BoardTemplateTypes == {"document", "table", "code"}

defaultWorkspaceState(sessionId) ==
    [ sessionId |-> sessionId, chatMessages |-> <<>>, boardSections |-> <<>>,
      boardTemplate |-> DefaultBoardTemplate, undoStack |-> <<>>, redoStack |-> <<>>,
      isAiTyping |-> FALSE, errorState |-> [hasError |-> FALSE, retryCount |-> 0] ]

\* the template of the last set_template instruction of the batch, else the current one
resolveBoardTemplateTypeFromActions(current, actions) ==
    LET switches == {i \in 1..Len(actions) :
                        /\ actions[i].action = "set_template"
                        /\ Has(actions[i], "template_type")
                        /\ actions[i].template_type \in BoardTemplateTypes}
    IN IF switches = {} THEN current
       ELSE actions[CHOOSE i \in switches : \A j \in switches : j <= i].template_type

\* const stored = localStorage.getItem(STORAGE_KEY); {...base, ...parsed, ...}: stored is
\* <<>> (nothing stored) or <<payload>>
InitialWorkspaceState(stored, sessionId) ==
    LET base == defaultWorkspaceState(sessionId)
    IN IF stored = <<>> THEN base
       ELSE LET parsed == stored[1]
            IN [ sessionId |-> parsed.sessionId,
                 chatMessages |-> parsed.chatMessages,
                 boardSections |-> syncDocumentTitle(parsed.boardSections),
                 boardTemplate |-> IF Has(parsed, "boardTemplate")
                                        /\ parsed.boardTemplate \in BoardTemplateTypes
                                   THEN parsed.boardTemplate ELSE base.boardTemplate,
                 undoStack |-> parsed.undoStack,
                 redoStack |-> parsed.redoStack,
                 isAiTyping |-> base.isAiTyping,
                 errorState |-> parsed.errorState ]

IndexOfMessage(messages, id) == FirstOf({i \in 1..Len(messages) : messages[i].id = id})

appendAssistantDelta(messages, assistantMessageId, chunk) ==
    [i \in 1..Len(messages) |->
        IF messages[i].id = assistantMessageId
        THEN [messages[i] EXCEPT !.content = messages[i].content \o chunk]
        ELSE messages[i]]

areBoardSectionsEqual(left, right) ==
    /\ Len(left) = Len(right)
    /\ \A i \in 1..Len(left) :
        /\ left[i].id = right[i].id
        /\ left[i].title = right[i].title
        /\ left[i].content = right[i].content
        /\ left[i].source = right[i].source

\* notes of the model carry no anchor: the target is the last section, or none (<<>>)
resolveMarginNoteTargetSectionId(sections) ==
    IF sections = <<>> THEN <<>> ELSE <<sections[Len(sections)].id>>

setMarginNoteAccepted(messages, messageId, noteIndex, accepted) ==
    [i \in 1..Len(messages) |->
        IF messages[i].id # messageId THEN messages[i]
        ELSE IF ~Has(messages[i], "marginNotes") \/ noteIndex > Len(messages[i].marginNotes)
        THEN messages[i]
        ELSE [messages[i] EXCEPT !.marginNotes[noteIndex] =
                [f \in DOMAIN @ \cup {"accepted"} |-> IF f = "accepted" THEN accepted ELSE @[f]]]]

\* a preview that would be committed like a final application
updateStreamBoardPreviewCommitting(st, view, baseSections, baseTemplate, boardActions) ==
    The({ [ state |-> [st EXCEPT !.boardSections = previewResult.sections,
                                 !.undoStack = pushUndoSnapshot(@, getBoardContent(st.boardSections))],
            ui |-> [view EXCEPT !.fresh = previewResult.fresh] ]
          : previewResult \in {applyBoardActions(baseSections, boardActions, view.fresh)} })

\* the setState updater of updateStreamBoardPreview: only the preview is written
updateStreamBoardPreview(st, view, baseSections, baseTemplate, boardActions) ==
    The({ [ state |-> st,
            ui |-> [view EXCEPT
                        !.streamBoardPreview =
                            IF /\ @ # <<>>
                               /\ @[1].template = next.template
                               /\ areBoardSectionsEqual(@[1].sections, next.sections)
                            THEN @ ELSE <<[sections |-> next.sections, template |-> next.template]>>,
                        !.fresh = next.fresh] ]
          : next \in { [ sections |-> previewResult.sections, fresh |-> previewResult.fresh,
                         template |-> resolveBoardTemplateTypeFromActions(baseTemplate, boardActions) ]
                       : previewResult \in {applyBoardActions(baseSections, boardActions, view.fresh)} } })

\* the setState updater of finalizeAgentSuccess
finalizeAgentSuccess(prev, assistantMessageId, response, fresh) ==
    The({ [ state |-> [prev EXCEPT
                        !.chatMessages =
                            IF IndexOfMessage(@, assistantMessageId) # 0
                            THEN [i \in 1..Len(@) |->
                                    IF @[i].id = assistantMessageId
                                    THEN [ id |-> assistantMessageId, role |-> "assistant",
                                           content |-> response.assistant_message,
                                           boardActions |-> response.board_actions,
                                           marginNotes |-> response.margin_notes ]
                                    ELSE @[i]]
                            ELSE Append(@, [ id |-> assistantMessageId, role |-> "assistant",
                                             content |-> response.assistant_message,
                                             boardActions |-> response.board_actions,
                                             marginNotes |-> response.margin_notes ]),
                        !.boardSections = result.sections,
                        !.boardTemplate = resolveBoardTemplateTypeFromActions(@, response.board_actions),
                        !.undoStack = IF result.didChange
                                      THEN pushUndoSnapshot(@, getBoardContent(prev.boardSections))
                                      ELSE @,
                        !.redoStack = IF result.didChange THEN <<>> ELSE @,
                        !.isAiTyping = FALSE,
                        !.errorState.hasError = FALSE],
            fresh |-> result.fresh ]
          : result \in {applyBoardActions(prev.boardSections, response.board_actions, fresh)} })

\* "摘录", "优化建议采纳", "小节 ", "<p></p>"
PinnedTitle == <<25688, 24405>>
AcceptedNoteTitle == <<20248, 21270, 24314, 35758, 37319, 32435>>
SectionLabel == <<23567, 33410, Ch.sp>>
EmptyParagraph == <<Ch.lt, 112, Ch.gt, Ch.lt, Ch.slash, 112, Ch.gt>>

\* the setState updater at the start of handleSendMessage
handleSendMessage(prev, userMessageId, assistantMessageId, content) ==
    [prev EXCEPT
        !.chatMessages = @ \o << [id |-> userMessageId, role |-> "user", content |-> content],
                                 [id |-> assistantMessageId, role |-> "assistant", content |-> <<>>] >>,
        !.isAiTyping = TRUE,
        !.errorState.hasError = FALSE]

\* the setState updater at the start of handleRetryLastRequest
handleRetryLastRequest(prev, assistantMessageId) ==
    [prev EXCEPT
        !.chatMessages = Append(@, [id |-> assistantMessageId, role |-> "assistant", content |-> <<>>]),
        !.isAiTyping = TRUE,
        !.errorState.hasError = FALSE]

\* a catch that would raise the error and leave the typing indicator on
OnAgentErrorStillTyping(prev, assistantMessageId) ==
    [prev EXCEPT
        !.chatMessages = SelectSeq(@, LAMBDA msg : ~(msg.id = assistantMessageId /\ Trim(msg.content) = <<>>)),
        !.errorState = [hasError |-> TRUE, retryCount |-> @.retryCount + 1]]

\* the inner catch of handleSendMessage / handleRetryLastRequest: both requests failed
OnAgentError(prev, assistantMessageId) ==
    [prev EXCEPT
        !.chatMessages = SelectSeq(@, LAMBDA msg : ~(msg.id = assistantMessageId /\ Trim(msg.content) = <<>>)),
        !.isAiTyping = FALSE,
        !.errorState = [hasError |-> TRUE, retryCount |-> @.retryCount + 1]]

handlePinToBoard(prev, messageId, fresh) ==
    LET at == IndexOfMessage(prev.chatMessages, messageId)
    IN IF at = 0 THEN prev
       ELSE [prev EXCEPT
                !.boardSections = Append(@, [id |-> makeId(fresh), title |-> PinnedTitle,
                                             content |-> prev.chatMessages[at].content,
                                             source |-> "pinned"]),
                !.undoStack = pushUndoSnapshot(@, getBoardContent(prev.boardSections)),
                !.redoStack = <<>>]

\* the note a button stands for, as <<note>>, or <<>> when the message or the note is missing
FindMarginNote(messages, messageId, noteIndex) ==
    LET at == IndexOfMessage(messages, messageId)
    IN IF at = 0 THEN <<>>
       ELSE IF ~Has(messages[at], "marginNotes") \/ noteIndex > Len(messages[at].marginNotes) THEN <<>>
       ELSE <<messages[at].marginNotes[noteIndex]>>

\* the instruction handleAcceptMarginNote builds from the note's suggestion
AcceptInstructions(sections, suggestion) ==
    IF resolveMarginNoteTargetSectionId(sections) # <<>>
    THEN <<[ action |-> "append_section", section_id |-> resolveMarginNoteTargetSectionId(sections)[1],
             content |-> suggestion ]>>
    ELSE <<[action |-> "create_structure", section_title |-> AcceptedNoteTitle, content |-> suggestion]>>

handleAcceptMarginNote(prev, messageId, noteIndex, fresh) ==
    The({ IF found = <<>> THEN prev
          ELSE IF (Has(found[1], "accepted") /\ found[1].accepted) \/ ~Has(found[1], "suggestion") THEN prev
          ELSE IF Trim(found[1].suggestion) = <<>> THEN prev
          ELSE The({ IF ~result.didChange THEN prev
                     ELSE [prev EXCEPT
                            !.chatMessages = setMarginNoteAccepted(@, messageId, noteIndex, TRUE),
                            !.boardSections = result.sections,
                            !.undoStack = pushUndoSnapshot(@, getBoardContent(prev.boardSections)),
                            !.redoStack = <<>>]
                     : result \in {applyBoardActions(prev.boardSections,
                                        AcceptInstructions(prev.boardSections, Trim(found[1].suggestion)),
                                        fresh)} })
          : found \in {FindMarginNote(prev.chatMessages, messageId, noteIndex)} })

handleUndoMarginNoteAccept(prev, messageId, noteIndex) ==
    IF prev.undoStack = <<>> THEN prev
    ELSE [prev EXCEPT
            !.chatMessages = setMarginNoteAccepted(@, messageId, noteIndex, FALSE),
            !.boardSections = prev.undoStack[Len(prev.undoStack)].sections,
            !.undoStack = SubSeq(@, 1, Len(@) - 1),
            !.redoStack = Append(@, getBoardContent(prev.boardSections))]

\* nextSections.map(...) of handleBoardSectionsChange, then syncDocumentTitle
NormalizeEditedSections(nextSections) ==
    syncDocumentTitle(
        [i \in 1..Len(nextSections) |->
            [ id |-> nextSections[i].id,
              title |-> IF Trim(nextSections[i].title) # <<>> THEN Trim(nextSections[i].title)
                        ELSE IF i = 1 THEN DEFAULT_DOCUMENT_TITLE
                        ELSE SectionLabel \o (IF i - 1 < 10 THEN <<Ch.d0 + i - 1>> ELSE Digits2(i - 1)),
              content |-> IF Trim(nextSections[i].content) # <<>> THEN nextSections[i].content
                          ELSE EmptyParagraph,
              source |-> "user" ]])

\* a manual edit that would keep the redo stack
handleBoardSectionsChangeKeepingRedo(prev, nextSections, shouldSnapshot) ==
    The({ IF areBoardSectionsEqual(prev.boardSections, normalizedSections) THEN prev
          ELSE [prev EXCEPT
                    !.boardSections = normalizedSections,
                    !.undoStack = IF shouldSnapshot
                                  THEN pushUndoSnapshot(@, getBoardContent(prev.boardSections))
                                  ELSE @]
          : normalizedSections \in {NormalizeEditedSections(nextSections)} })

\* shouldSnapshot is now - lastEditSnapshotRef.current.at >= EDIT_SNAPSHOT_INTERVAL_MS
handleBoardSectionsChange(prev, nextSections, shouldSnapshot) ==
    The({ IF areBoardSectionsEqual(prev.boardSections, normalizedSections) THEN prev
          ELSE [prev EXCEPT
                    !.boardSections = normalizedSections,
                    !.undoStack = IF shouldSnapshot
                                  THEN pushUndoSnapshot(@, getBoardContent(prev.boardSections))
                                  ELSE @,
                    !.redoStack = <<>>]
          : normalizedSections \in {NormalizeEditedSections(nextSections)} })

handleBoardTemplateChange(prev, template) ==
    IF prev.boardTemplate = template THEN prev ELSE [prev EXCEPT !.boardTemplate = template]

handleUndo(prev) ==
    IF prev.undoStack = <<>> THEN prev
    ELSE [prev EXCEPT
            !.boardSections = prev.undoStack[Len(prev.undoStack)].sections,
            !.undoStack = SubSeq(@, 1, Len(@) - 1),
            !.redoStack = Append(@, getBoardContent(prev.boardSections))]

\* a redo that would leave the redone snapshot on the redo stack
handleRedoKeepingRedo(prev) ==
    IF prev.redoStack = <<>> THEN prev
    ELSE [prev EXCEPT
            !.boardSections = prev.redoStack[Len(prev.redoStack)].sections,
            !.undoStack = Append(@, getBoardContent(prev.boardSections))]

handleRedo(prev) ==
    IF prev.redoStack = <<>> THEN prev
    ELSE [prev EXCEPT
            !.boardSections = prev.redoStack[Len(prev.redoStack)].sections,
            !.undoStack = Append(@, getBoardContent(prev.boardSections)),
            !.redoStack = SubSeq(@, 1, Len(@) - 1)]

---------------------------------------------------------------------------
(* Spec: one session of the workspace. state is the React state of              *)
(* DualPaneWorkspace, ui its preview, snapshot-throttle ref and identifier      *)
(* source, turn the closure of the request in flight, hist a record of the     *)
(* last step taken (for stating properties only).                              *)

MaxOps == 2
MaxTurns == 2
MaxDeltas == 1
MaxPreviews == 1

NoNotes == <<>>

\* responses of the agent service: assistant_message, board_actions, margin_notes
AgentResponses ==
    { [ assistant_message |-> StrA,
        board_actions |-> <<[action |-> "create_structure", section_title |-> StrA, content |-> StrX]>>,
        margin_notes |-> NoNotes ],
      [ assistant_message |-> StrB,
        board_actions |-> <<[action |-> "update_section", section_title |-> StrA, content |-> StrX]>>,
        margin_notes |-> <<[comment |-> StrB, suggestion |-> StrY]>> ],
      [ assistant_message |-> StrB,
        board_actions |-> <<[action |-> "update_section", section_title |-> StrA, content |-> StrY],
                            [action |-> "set_template", template_type |-> "table"]>>,
        margin_notes |-> NoNotes ],
      [ assistant_message |-> StrA,
        board_actions |-> <<>>,
        margin_notes |-> NoNotes ] }

\* instruction lists surfaced by the decoder while a response streams
PreviewBatches ==
    { <<[action |-> "create_structure", section_title |-> StrA, content |-> StrX]>>,
      <<[action |-> "update_section", section_title |-> StrA, content |-> StrY],
        [action |-> "set_template", template_type |-> "code"]>> }

\* what the editor hands to handleBoardSectionsChange: the board with one section's
\* content retyped, the board emptied, or a first section typed into an empty board
EditedBoards(sections) ==
    { [sections EXCEPT ![i].content = c] : i \in 1..Len(sections), c \in {StrX, StrY} }
        \cup {<<>>}
        \cup (IF sections = <<>>
              THEN {<<[id |-> "typed", title |-> StrA, content |-> StrX, source |-> "user"]>>}
              ELSE {})

TurnIdle == [phase |-> "idle"]

\* the record of a step: its name, whether it changed the section list, the redo depth
\* before it, and the undo snapshots pushed so far by the agent applications of the turn
Step(op, next, isUserOp, isNewTurn, pushes) ==
    [ lastOp |-> op,
      changed |-> next.boardSections # state.boardSections,
      redoBefore |-> Len(state.redoStack),
      ops |-> hist.ops + (IF isUserOp THEN 1 ELSE 0),
      turns |-> hist.turns + (IF isNewTurn THEN 1 ELSE 0),
      pushes |-> pushes ]

Init ==
    /\ state = defaultWorkspaceState("session")
    /\ ui = [streamBoardPreview |-> <<>>, editSnapshotDue |-> TRUE, fresh |-> 1]
    /\ turn = TurnIdle
    /\ hist = [lastOp |-> "init", changed |-> FALSE, redoBefore |-> 0, ops |-> 0, turns |-> 0, pushes |-> 0]
    /\ core = CoreOff /\ storage = StorageOff /\ persist = PersistOff /\ dec = DecOff

\* the persistence effect: a render with a new state cancels the pending write and
\* schedules one for the new state (storage is not observed in Spec)
SchedulePersist(next) ==
    IF storage.phase = "off" \/ next = state THEN storage
    ELSE [storage EXCEPT !.pending = << [ snapshot |-> createPersistedSnapshot(next),
                                          mode |-> next.boardTemplate, stage |-> "timer" ] >>]

\* flushAssistantDelta: the buffered text is appended to the placeholder message
FlushedState ==
    IF turn.bufferedDelta = <<>> THEN state
    ELSE [state EXCEPT !.chatMessages = appendAssistantDelta(@, turn.assistantMessageId, turn.bufferedDelta)]

StartTurn(assistantMessageId) ==
    [ phase |-> "streaming", assistantMessageId |-> assistantMessageId,
      baseSections |-> state.boardSections, baseTemplate |-> state.boardTemplate,
      bufferedDelta |-> <<>>, flushTimer |-> FALSE, deltas |-> 0, previews |-> 0 ]

\* ChatPane sends only when no answer is being typed
SendMessage ==
    /\ turn.phase = "idle" /\ ~state.isAiTyping /\ hist.turns < MaxTurns
    /\ state' = handleSendMessage(state, makeId(ui.fresh), makeId(ui.fresh + 1), StrA)
    /\ ui' = [ui EXCEPT !.streamBoardPreview = <<>>, !.fresh = @ + 2]
    /\ turn' = StartTurn(makeId(ui.fresh + 1))
    /\ hist' = Step("send", state', FALSE, TRUE, 0)
    /\ storage' = SchedulePersist(state')
    /\ UNCHANGED <<core, persist, dec>>

\* the retry button of the error banner
RetryLastRequest ==
    /\ turn.phase = "idle" /\ state.errorState.hasError /\ hist.turns < MaxTurns
    /\ ~state.isAiTyping /\ state.chatMessages # <<>>
    /\ state' = handleRetryLastRequest(state, makeId(ui.fresh))
    /\ ui' = [ui EXCEPT !.streamBoardPreview = <<>>, !.fresh = @ + 1]
    /\ turn' = StartTurn(makeId(ui.fresh))
    /\ hist' = Step("retry", state', FALSE, TRUE, 0)
    /\ storage' = SchedulePersist(state')
    /\ UNCHANGED <<core, persist, dec>>

\* onAssistantDelta: buffer the text and arm the flush timer
StreamDelta ==
    /\ turn.phase = "streaming" /\ turn.deltas < MaxDeltas
    /\ turn' = [turn EXCEPT !.bufferedDelta = @ \o StrB, !.flushTimer = TRUE, !.deltas = @ + 1]
    /\ hist' = Step("delta", state, FALSE, FALSE, hist.pushes)
    /\ UNCHANGED <<state, ui, storage, core, persist, dec>>

FlushTimerFires ==
    /\ turn.phase = "streaming" /\ turn.flushTimer
    /\ state' = FlushedState
    /\ turn' = [turn EXCEPT !.bufferedDelta = <<>>, !.flushTimer = FALSE]
    /\ hist' = Step("flush", state', FALSE, FALSE, hist.pushes)
    /\ storage' = SchedulePersist(state')
    /\ UNCHANGED <<ui, core, persist, dec>>

\* onBoardActionsPreview
StreamPreview ==
    /\ turn.phase = "streaming" /\ turn.previews < MaxPreviews
    /\ \E boardActions \in PreviewBatches :
        \E after \in {updateStreamBoardPreview(state, ui, turn.baseSections, turn.baseTemplate, boardActions)} :
           /\ state' = after.state
           /\ ui' = after.ui
           /\ hist' = Step("preview", after.state, FALSE, FALSE,
                           hist.pushes + (IF after.state.undoStack # state.undoStack THEN 1 ELSE 0))
    /\ turn' = [turn EXCEPT !.previews = @ + 1]
    /\ storage' = SchedulePersist(state')
    /\ UNCHANGED <<core, persist, dec>>

\* the stream resolves: flush, then finalizeAgentSuccess
StreamSuccess ==
    /\ turn.phase = "streaming"
    /\ \E response \in AgentResponses :
        \E after \in {finalizeAgentSuccess(FlushedState, turn.assistantMessageId, response, ui.fresh)} :
           /\ state' = after.state
           /\ ui' = [ui EXCEPT !.streamBoardPreview = <<>>, !.fresh = after.fresh]
           /\ hist' = Step("finalize", after.state, FALSE, FALSE,
                           hist.pushes + (IF after.state.undoStack # state.undoStack THEN 1 ELSE 0))
    /\ turn' = TurnIdle
    /\ storage' = SchedulePersist(state')
    /\ UNCHANGED <<core, persist, dec>>

\* the stream rejects: flush, drop the preview, issue the non-streaming request
StreamFails ==
    /\ turn.phase = "streaming"
    /\ state' = FlushedState
    /\ ui' = [ui EXCEPT !.streamBoardPreview = <<>>]
    /\ turn' = [turn EXCEPT !.phase = "fallback", !.bufferedDelta = <<>>, !.flushTimer = FALSE]
    /\ hist' = Step("streamError", state', FALSE, FALSE, hist.pushes)
    /\ storage' = SchedulePersist(state')
    /\ UNCHANGED <<core, persist, dec>>

FallbackSuccess ==
    /\ turn.phase = "fallback"
    /\ \E response \in AgentResponses :
        \E after \in {finalizeAgentSuccess(state, turn.assistantMessageId, response, ui.fresh)} :
           /\ state' = after.state
           /\ ui' = [ui EXCEPT !.streamBoardPreview = <<>>, !.fresh = after.fresh]
           /\ hist' = Step("finalize", after.state, FALSE, FALSE,
                           hist.pushes + (IF after.state.undoStack # state.undoStack THEN 1 ELSE 0))
    /\ turn' = TurnIdle
    /\ storage' = SchedulePersist(state')
    /\ UNCHANGED <<core, persist, dec>>

FallbackFails ==
    /\ turn.phase = "fallback"
    /\ state' = OnAgentError(state, turn.assistantMessageId)
    /\ turn' = TurnIdle
    /\ hist' = Step("agentError", state', FALSE, FALSE, hist.pushes)
    /\ storage' = SchedulePersist(state')
    /\ UNCHANGED <<ui, core, persist, dec>>

MessageIds == {state.chatMessages[i].id : i \in 1..Len(state.chatMessages)}

\* the (message, note) pairs whose button shows, by whether the note is accepted
NoteButtons(accepted) ==
    { <<state.chatMessages[i].id, k>> :
        i \in {j \in 1..Len(state.chatMessages) : Has(state.chatMessages[j], "marginNotes")},
        k \in 1..1 } \cap
    { <<state.chatMessages[i].id, k>> :
        i \in {j \in 1..Len(state.chatMessages) :
                /\ Has(state.chatMessages[j], "marginNotes")
                /\ state.chatMessages[j].marginNotes # <<>>
                /\ (Has(state.chatMessages[j].marginNotes[1], "accepted")
                        /\ state.chatMessages[j].marginNotes[1].accepted) = accepted},
        k \in 1..1 }

PinToBoard ==
    /\ hist.ops < MaxOps
    /\ \E messageId \in MessageIds :
        /\ state' = handlePinToBoard(state, messageId, ui.fresh)
        /\ hist' = Step("pin", state', TRUE, FALSE, hist.pushes)
    /\ ui' = [ui EXCEPT !.fresh = @ + 1]
    /\ storage' = SchedulePersist(state')
    /\ UNCHANGED <<turn, core, persist, dec>>

AcceptMarginNote ==
    /\ hist.ops < MaxOps
    /\ \E button \in NoteButtons(FALSE) :
        /\ state' = handleAcceptMarginNote(state, button[1], button[2], ui.fresh)
        /\ hist' = Step("acceptNote", state', TRUE, FALSE, hist.pushes)
    /\ ui' = [ui EXCEPT !.fresh = @ + 1]
    /\ storage' = SchedulePersist(state')
    /\ UNCHANGED <<turn, core, persist, dec>>

UndoMarginNoteAccept ==
    /\ hist.ops < MaxOps
    /\ \E button \in NoteButtons(TRUE) :
        /\ state' = handleUndoMarginNoteAccept(state, button[1], button[2])
        /\ hist' = Step("undoNote", state', TRUE, FALSE, hist.pushes)
    /\ storage' = SchedulePersist(state')
    /\ UNCHANGED <<ui, turn, core, persist, dec>>

\* a manual edit; the throttle ref is written only when the edit is applied and snapshotted
EditBoard ==
    /\ hist.ops < MaxOps
    /\ \E nextSections \in EditedBoards(state.boardSections) :
        /\ state' = handleBoardSectionsChange(state, nextSections, ui.editSnapshotDue)
        /\ hist' = Step("edit", state', TRUE, FALSE, hist.pushes)
    /\ ui' = [ui EXCEPT !.editSnapshotDue = IF state' # state THEN FALSE ELSE @]
    /\ storage' = SchedulePersist(state')
    /\ UNCHANGED <<turn, core, persist, dec>>

\* EDIT_SNAPSHOT_INTERVAL_MS pass since the last snapshotted edit
SnapshotIntervalElapses ==
    /\ ~ui.editSnapshotDue
    /\ ui' = [ui EXCEPT !.editSnapshotDue = TRUE]
    /\ hist' = Step("tick", state, FALSE, FALSE, hist.pushes)
    /\ UNCHANGED <<state, turn, storage, core, persist, dec>>

ChangeTemplate ==
    /\ hist.ops < MaxOps
    /\ \E template \in BoardTemplateTypes :
        /\ template # state.boardTemplate
        /\ state' = handleBoardTemplateChange(state, template)
        /\ hist' = Step("template", state', TRUE, FALSE, hist.pushes)
    /\ ui' = [ui EXCEPT !.streamBoardPreview = <<>>]
    /\ storage' = SchedulePersist(state')
    /\ UNCHANGED <<turn, core, persist, dec>>

\* the undo button is enabled when the undo stack is not empty
Undo ==
    /\ hist.ops < MaxOps /\ state.undoStack # <<>>
    /\ state' = handleUndo(state)
    /\ hist' = Step("undo", state', TRUE, FALSE, hist.pushes)
    /\ storage' = SchedulePersist(state')
    /\ UNCHANGED <<ui, turn, core, persist, dec>>

Redo ==
    /\ hist.ops < MaxOps /\ state.redoStack # <<>>
    /\ state' = handleRedo(state)
    /\ hist' = Step("redo", state', TRUE, FALSE, hist.pushes)
    /\ storage' = SchedulePersist(state')
    /\ UNCHANGED <<ui, turn, core, persist, dec>>

\* handleNewSession; a request in flight keeps running
NewSession ==
    /\ hist.ops < MaxOps /\ state # defaultWorkspaceState(state.sessionId)
    /\ state' = defaultWorkspaceState(makeId(ui.fresh))
    /\ ui' = [streamBoardPreview |-> <<>>, editSnapshotDue |-> TRUE, fresh |-> ui.fresh + 1]
    /\ hist' = Step("newSession", state', TRUE, FALSE, hist.pushes)
    /\ storage' = SchedulePersist(state')
    /\ UNCHANGED <<turn, core, persist, dec>>

Next ==
    \/ SendMessage \/ RetryLastRequest \/ StreamDelta \/ FlushTimerFires \/ StreamPreview
    \/ StreamSuccess \/ StreamFails \/ FallbackSuccess \/ FallbackFails
    \/ PinToBoard \/ AcceptMarginNote \/ UndoMarginNoteAccept \/ EditBoard
    \/ SnapshotIntervalElapses \/ ChangeTemplate \/ Undo \/ Redo \/ NewSession

Spec == Init /\ [][Next]_vars

AdjacentDuplicate(stack) == \E i \in 1..(Len(stack) - 1) : stack[i].rawMarkdown = stack[i + 1].rawMarkdown

\* C2 (as claimed): in every reachable state neither the undo stack nor the redo stack
\* holds two adjacent snapshots of equal rawMarkdown.
C2_NoAdjacentDuplicateSnapshots ==
    ~AdjacentDuplicate(state.undoStack) /\ ~AdjacentDuplicate(state.redoStack)

ForwardEdits == {"finalize", "edit", "pin", "acceptNote"}

UndoOperations == {"undo", "undoNote"}

\* C9: after a final agent application, a manual edit, a pin or a margin-note acceptance
\* that changed the section list the redo stack is empty; the redo stack grows only by an
\* undo (the undo button, or the undo of a margin-note acceptance), and no step other than
\* undo and redo leaves it non-empty after finding it empty.
C9_ForwardEditsClearRedo ==
    /\ (hist.lastOp \in ForwardEdits /\ hist.changed) => state.redoStack = <<>>
    /\ Len(state.redoStack) > hist.redoBefore => hist.lastOp \in UndoOperations
    /\ (hist.redoBefore = 0 /\ state.redoStack # <<>>) => hist.lastOp \in UndoOperations \cup {"redo"}

C9_RedoHistoryInvalidated ==
    /\ hist.lastOp \in ForwardEdits
    /\ hist.changed
    /\ hist.redoBefore > 0
    /\ state.redoStack = <<>>

\* C10: a streamed preview, a text delta and a flush of buffered text leave the committed
\* sections, the undo stack and the redo stack as they were; the agent applications of one
\* turn push at most one undo snapshot, and the push is made by the final application.
C10_PreviewsNeverReachHistory ==
    [][ /\ hist'.lastOp \in {"preview", "delta", "flush"} =>
            /\ state'.boardSections = state.boardSections
            /\ state'.undoStack = state.undoStack
            /\ state'.redoStack = state.redoStack
        /\ hist'.pushes <= 1
        /\ hist'.pushes > hist.pushes => hist'.lastOp = "finalize" ]_vars

C10_PreviewShownButNotCommitted ==
    /\ hist.lastOp = "preview"
    /\ ui.streamBoardPreview # <<>>
    /\ ui.streamBoardPreview[1].sections # state.boardSections
    /\ turn.phase = "streaming"

---------------------------------------------------------------------------
(* SpecSession: the workspace with its localStorage. Every render with a new     *)
(* state schedules persistWorkspaceSnapshot behind a timer and an idle callback; *)
(* a page reload initialises the workspace from what is stored.                  *)

\* setItem accepts the first, the second, the third write, or none
SessionStorageBehaviours ==
    { [kind |-> "outcomes", accept |-> [i \in 1..3 |-> i >= first]] : first \in 1..4 }

\* the effect's first run on mount: a write of the initial state is scheduled
MountedStorage(hasIdle, stored, storedMode, initial) ==
    [ phase |-> "on", hasIdle |-> hasIdle, stored |-> stored, storedMode |-> storedMode,
      pending |-> << [ snapshot |-> createPersistedSnapshot(initial),
                       mode |-> initial.boardTemplate, stage |-> "timer" ] >>,
      result |-> "none" ]

SessionInit ==
    /\ state = InitialWorkspaceState(<<>>, "session")
    /\ ui = [streamBoardPreview |-> <<>>, editSnapshotDue |-> TRUE, fresh |-> 1]
    /\ turn = TurnIdle
    /\ hist = [lastOp |-> "init", changed |-> FALSE, redoBefore |-> 0, ops |-> 0, turns |-> 0, pushes |-> 0]
    /\ \E hasIdle \in BOOLEAN : storage = MountedStorage(hasIdle, <<>>, <<>>, state)
    /\ core = CoreOff /\ persist = PersistOff /\ dec = DecOff

\* const persist = () => persistWorkspaceSnapshot(localStorage, STORAGE_KEY, snapshot):
\* a failed write leaves the stored item as it was
RunPersist(st, behaviour) ==
    The({ [st EXCEPT !.pending = <<>>,
                     !.result = done.result,
                     !.stored = IF done.result = "failed" THEN @ ELSE done.stored,
                     !.storedMode = IF done.result = "failed" THEN @ ELSE <<st.pending[1].mode>>]
          : done \in {persistWorkspaceSnapshot(st.pending[1].snapshot, behaviour)} })

\* the setTimeout callback: ask for an idle callback, or write at once without one
PersistTimerFires ==
    /\ storage.pending # <<>> /\ storage.pending[1].stage = "timer"
    /\ \/ /\ storage.hasIdle
          /\ storage' = [storage EXCEPT !.pending[1].stage = "idle"]
       \/ /\ ~storage.hasIdle
          /\ \E behaviour \in SessionStorageBehaviours : storage' = RunPersist(storage, behaviour)
    /\ hist' = Step("persistTimer", state, FALSE, FALSE, hist.pushes)
    /\ UNCHANGED <<state, ui, turn, core, persist, dec>>

\* the idle callback
PersistIdleRuns ==
    /\ storage.pending # <<>> /\ storage.pending[1].stage = "idle"
    /\ \E behaviour \in SessionStorageBehaviours : storage' = RunPersist(storage, behaviour)
    /\ hist' = Step("persistIdle", state, FALSE, FALSE, hist.pushes)
    /\ UNCHANGED <<state, ui, turn, core, persist, dec>>

\* the page is loaded again: timers and requests of the old page are gone, the state
\* is initialised from localStorage and the effect runs for it
ReloadPage ==
    /\ hist.ops < MaxOps
    /\ state' = InitialWorkspaceState(storage.stored, "session")
    /\ ui' = [streamBoardPreview |-> <<>>, editSnapshotDue |-> TRUE, fresh |-> ui.fresh]
    /\ turn' = TurnIdle
    /\ storage' = MountedStorage(storage.hasIdle, storage.stored, storage.storedMode, state')
    /\ hist' = Step("reload", state', TRUE, FALSE, 0)
    /\ UNCHANGED <<core, persist, dec>>

SessionNext ==
    \/ SendMessage \/ StreamSuccess \/ EditBoard \/ ChangeTemplate \/ Undo
    \/ PersistTimerFires \/ PersistIdleRuns \/ ReloadPage

SpecSession == SessionInit /\ [][SessionNext]_vars

\* C8 (as claimed): once a state whose document mode is m has been stored by
\* persistWorkspaceSnapshot under a profile that succeeded, a workspace initialised from
\* the stored snapshot has document mode m.
C8_ModeRestoredFromStorage ==
    (hist.lastOp = "reload" /\ storage.storedMode # <<>>)
        => state.boardTemplate = storage.storedMode[1]

---------------------------------------------------------------------------
(* streaming.ts: the incremental frame decoder. Positions are 1-based: raw[i]  *)
(* is the code's raw[i - 1], and position 0 stands for the code's index -1.    *)

IsHexDigit(c) == IsDigit(c) \/ (c >= Ch.a /\ c <= Ch.f) \/ (c >= Ch.A /\ c <= Ch.F)

HexDigitValue(c) ==
    IF IsDigit(c) THEN c - Ch.d0 ELSE IF c >= Ch.a THEN (c - Ch.a) + 10 ELSE (c - Ch.A) + 10

\* Number.parseInt(hex, 16)
RECURSIVE ParseHex(_)
ParseHex(hex) ==
    IF hex = <<>> THEN 0
    ELSE (ParseHex(SubSeq(hex, 1, Len(hex) - 1)) * 16) + HexDigitValue(hex[Len(hex)])

\* raw[i] ?? "": a position outside the string holds no character
CharAt(raw, i) == IF i >= 1 /\ i <= Len(raw) THEN raw[i] ELSE 0 - 1

Decoded(value, nextIndex) == [ok |-> TRUE, value |-> value, nextIndex |-> nextIndex]

\* the null of decodeEscapedChar
NotDecoded == [ok |-> FALSE, value |-> <<>>, nextIndex |-> 0]

\* a decoder that would decode a \u escape from the hex digits received so far, and
\* take any other escaped character for itself
decodeEscapedCharEager(raw, index) ==
    IF raw[index] = Ch.u
    THEN Decoded(<<ParseHex(SelectSeq(Slice(raw, index + 1, IF index + 4 <= Len(raw) THEN index + 4 ELSE Len(raw)),
                                      IsHexDigit))>>,
                 IF index + 5 <= Len(raw) + 1 THEN index + 5 ELSE Len(raw) + 1)
    ELSE Decoded(<<raw[index]>>, index + 1)

\* index is the position after the backslash
decodeEscapedChar(raw, index) ==
    IF raw[index] \in {Ch.quote, Ch.bslash, Ch.slash} THEN Decoded(<<raw[index]>>, index + 1)
    ELSE IF raw[index] = Ch.b THEN Decoded(<<Ch.bs>>, index + 1)
    ELSE IF raw[index] = Ch.f THEN Decoded(<<Ch.ff>>, index + 1)
    ELSE IF raw[index] = Ch.n THEN Decoded(<<Ch.lf>>, index + 1)
    ELSE IF raw[index] = Ch.r THEN Decoded(<<Ch.cr>>, index + 1)
    ELSE IF raw[index] = Ch.t THEN Decoded(<<Ch.tab>>, index + 1)
    ELSE IF raw[index] = Ch.u
         THEN IF index + 4 <= Len(raw) /\ \A k \in 1..4 : IsHexDigit(raw[index + k])
              THEN Decoded(<<ParseHex(SubSeq(raw, index + 1, index + 4))>>, index + 5)
              ELSE NotDecoded
    ELSE Decoded(<<raw[index]>>, index + 1)

ParseStringResult(value, closed, nextIndex) == [value |-> value, closed |-> closed, nextIndex |-> nextIndex]

\* the while loop of parseJsonStringPrefix
RECURSIVE ParseStringLoop(_, _, _)
ParseStringLoop(raw, i, out) ==
    IF i > Len(raw) THEN ParseStringResult(out, FALSE, i)
    ELSE IF raw[i] = Ch.quote THEN ParseStringResult(out, TRUE, i + 1)
    ELSE IF raw[i] = Ch.bslash
         THEN IF i + 1 > Len(raw) THEN ParseStringResult(out, FALSE, i + 1)
              ELSE The({ IF ~decoded.ok THEN ParseStringResult(out, FALSE, i + 1)
                         ELSE ParseStringLoop(raw, decoded.nextIndex, out \o decoded.value)
                         : decoded \in {decodeEscapedChar(raw, i + 1)} })
    ELSE ParseStringLoop(raw, i + 1, Append(out, raw[i]))

parseJsonStringPrefix(raw, startIndex) == ParseStringLoop(raw, startIndex, <<>>)

\* String.prototype.indexOf, 1-based; 0 when absent
IndexOf(s, sub) == FirstOf({i \in 1..((Len(s) - Len(sub)) + 1) : SubSeq(s, i, (i + Len(sub)) - 1) = sub})

\* while (i < raw.length && /\s/.test(raw[i])) i += 1
RECURSIVE SkipWhitespace(_, _)
SkipWhitespace(raw, i) == IF i <= Len(raw) /\ IsSpace(raw[i]) THEN SkipWhitespace(raw, i + 1) ELSE i

\* "assistant_message" and "board_actions" with their quotes
AssistantMessageKey == <<34, 97, 115, 115, 105, 115, 116, 97, 110, 116, 95, 109, 101, 115, 115, 97, 103, 101, 34>>
BoardActionsKey == <<34, 98, 111, 97, 114, 100, 95, 97, 99, 116, 105, 111, 110, 115, 34>>

\* the position after the key, its colon and the opening character, or 0 when the
\* buffer does not hold them yet
ValueStartAfterKey(raw, key, opening) ==
    IF Trim(raw) = <<>> \/ IndexOf(raw, key) = 0 THEN 0
    ELSE The({ IF CharAt(raw, colon) # Ch.colon THEN 0
               ELSE The({ IF CharAt(raw, open) # opening THEN 0 ELSE open + 1
                          : open \in {SkipWhitespace(raw, colon + 1)} })
               : colon \in {SkipWhitespace(raw, IndexOf(raw, key) + Len(key))} })

extractAssistantMessageFromJsonPrefix(rawJsonLike) ==
    The({ IF start = 0 THEN <<>> ELSE parseJsonStringPrefix(rawJsonLike, start).value
          : start \in {ValueStartAfterKey(rawJsonLike, AssistantMessageKey, Ch.quote)} })

\* the field names the decoder reads, as JavaScript strings
KeyText ==
    [ action |-> <<97, 99, 116, 105, 111, 110>>,
      section_id |-> <<115, 101, 99, 116, 105, 111, 110, 95, 105, 100>>,
      section_title |-> <<115, 101, 99, 116, 105, 111, 110, 95, 116, 105, 116, 108, 101>>,
      content |-> <<99, 111, 110, 116, 101, 110, 116>>,
      template_type |-> <<116, 101, 109, 112, 108, 97, 116, 101, 95, 116, 121, 112, 101>> ]

\* a field value of an instruction: its JSON type and its text
JsonText(text) == [type |-> "string", text |-> text]

\* action[name] = value
SetField(action, name, value) ==
    [k \in (DOMAIN action) \cup {name} |-> IF k = name THEN value ELSE action[k]]

\* the kinds and modes, as JavaScript strings
ActionKinds ==
    { <<99, 114, 101, 97, 116, 101, 95, 115, 116, 114, 117, 99, 116, 117, 114, 101>>,
      <<117, 112, 100, 97, 116, 101, 95, 115, 101, 99, 116, 105, 111, 110>>,
      <<97, 112, 112, 101, 110, 100, 95, 115, 101, 99, 116, 105, 111, 110>>,
      <<99, 108, 101, 97, 114, 95, 115, 101, 99, 116, 105, 111, 110>>,
      <<115, 101, 116, 95, 116, 101, 109, 112, 108, 97, 116, 101>> }

TemplateTypeTexts == {<<100, 111, 99, 117, 109, 101, 110, 116>>, <<116, 97, 98, 108, 101>>, <<99, 111, 100, 101>>}

\* the value, or <<>> for null (no kind is the empty string)
normalizeAction(value) == IF value \in ActionKinds THEN value ELSE <<>>

normalizeTemplateType(value) == IF value \in TemplateTypeTexts THEN value ELSE <<>>

setPartialActionField(action, key, value) ==
    IF key = KeyText.action
    THEN IF normalizeAction(value) # <<>> THEN SetField(action, "action", JsonText(normalizeAction(value))) ELSE action
    ELSE IF key = KeyText.template_type
    THEN IF normalizeTemplateType(value) # <<>>
         THEN SetField(action, "template_type", JsonText(normalizeTemplateType(value))) ELSE action
    ELSE IF key = KeyText.section_id THEN SetField(action, "section_id", JsonText(value))
    ELSE IF key = KeyText.section_title THEN SetField(action, "section_title", JsonText(value))
    ELSE IF key = KeyText.content THEN SetField(action, "content", JsonText(value))
    ELSE action

\* while (i < raw.length && raw[i] !== "," && raw[i] !== "}") i += 1
RECURSIVE SkipRawValue(_, _)
SkipRawValue(raw, i) ==
    IF i <= Len(raw) /\ raw[i] # Ch.comma /\ raw[i] # Ch.rbrace THEN SkipRawValue(raw, i + 1) ELSE i

\* a value that does not start with a quote: its trimmed text is stored as a string
RECURSIVE PartialActionLoop(_, _, _)
PartialRawValue(raw, key, valueStart, partial) ==
    The({ The({ IF CharAt(raw, end) = Ch.rbrace THEN set ELSE PartialActionLoop(raw, end, set)
                : set \in { IF Trim(Slice(raw, valueStart, end - 1)) # <<>>
                            THEN setPartialActionField(partial, key, Trim(Slice(raw, valueStart, end - 1)))
                            ELSE partial } })
          : end \in {SkipRawValue(raw, valueStart)} })

\* a value that starts with a quote; valueStart is the position after the quote
PartialStringValue(raw, key, valueStart, partial) ==
    The({ IF ~valueParsed.closed THEN setPartialActionField(partial, key, valueParsed.value)
          ELSE PartialActionLoop(raw, valueParsed.nextIndex,
                                 setPartialActionField(partial, key, valueParsed.value))
          : valueParsed \in {parseJsonStringPrefix(raw, valueStart)} })

\* the rest of a pass once the key is read: colon, whitespace, value
PartialAfterKey(raw, keyParsed, partial) ==
    IF ~keyParsed.closed THEN partial
    ELSE The({ IF CharAt(raw, colon) # Ch.colon THEN partial
               ELSE The({ IF CharAt(raw, valueStart) = Ch.quote
                          THEN PartialStringValue(raw, keyParsed.value, valueStart + 1, partial)
                          ELSE PartialRawValue(raw, keyParsed.value, valueStart, partial)
                          : valueStart \in {SkipWhitespace(raw, colon + 1)} })
               : colon \in {SkipWhitespace(raw, keyParsed.nextIndex)} })

\* the while loop of extractPartialActionFromObjectPrefix
PartialActionLoop(raw, i, partial) ==
    IF i > Len(raw) THEN partial
    ELSE The({ IF CharAt(raw, at) = Ch.comma THEN PartialActionLoop(raw, at + 1, partial)
               ELSE IF CharAt(raw, at) # Ch.quote THEN partial
               ELSE PartialAfterKey(raw, parseJsonStringPrefix(raw, at + 1), partial)
               : at \in {SkipWhitespace(raw, i)} })

\* the object without fields
EmptyObject == [k \in {} |-> JsonText(<<>>)]

\* <<>> for null, <<instruction>> otherwise
extractPartialActionFromObjectPrefix(rawObjectPrefix) ==
    IF Trim(rawObjectPrefix) = <<>> \/ Head(Trim(rawObjectPrefix)) # Ch.lbrace THEN <<>>
    ELSE The({ IF Has(partial, "action") THEN <<partial>> ELSE <<>>
               : partial \in {PartialActionLoop(rawObjectPrefix,
                                                IndexOf(rawObjectPrefix, <<Ch.lbrace>>) + 1,
                                                EmptyObject)} })

(* JSON.parse on the texts the scan cuts out: objects whose values are strings,  *)
(* the literals null, true and false, integers, and nested objects.               *)

JsonParsed(value, nextIndex) == [ok |-> TRUE, value |-> value, nextIndex |-> nextIndex]

\* a SyntaxError
JsonError == [ok |-> FALSE, value |-> <<>>, nextIndex |-> 0]

JsonEscapes == {Ch.quote, Ch.bslash, Ch.slash, Ch.b, Ch.f, Ch.n, Ch.r, Ch.t}

JsonEscapeValue(c) ==
    IF c = Ch.b THEN Ch.bs ELSE IF c = Ch.f THEN Ch.ff ELSE IF c = Ch.n THEN Ch.lf
    ELSE IF c = Ch.r THEN Ch.cr ELSE IF c = Ch.t THEN Ch.tab ELSE c

\* a JSON string from the position after its opening quote: it must close, hold no
\* control character and only the escapes of the grammar
RECURSIVE JsonString(_, _, _)
JsonString(raw, i, out) ==
    IF i > Len(raw) \/ raw[i] < Ch.sp THEN JsonError
    ELSE IF raw[i] = Ch.quote THEN JsonParsed(out, i + 1)
    ELSE IF raw[i] # Ch.bslash THEN JsonString(raw, i + 1, Append(out, raw[i]))
    ELSE IF CharAt(raw, i + 1) \in JsonEscapes
         THEN JsonString(raw, i + 2, Append(out, JsonEscapeValue(raw[i + 1])))
    ELSE IF CharAt(raw, i + 1) = Ch.u /\ i + 5 <= Len(raw) /\ \A k \in 2..5 : IsHexDigit(raw[i + k])
         THEN JsonString(raw, i + 6, Append(out, ParseHex(SubSeq(raw, i + 2, i + 5))))
    ELSE JsonError

\* "null", "true", "false"
JsonLiterals ==
    [ null |-> <<110, 117, 108, 108>>, boolean |-> {<<116, 114, 117, 101>>, <<102, 97, 108, 115, 101>>} ]

RECURSIVE SkipLiteral(_, _)
SkipLiteral(raw, i) ==
    IF i <= Len(raw) /\ (IsLetter(raw[i]) \/ IsDigit(raw[i]) \/ raw[i] = Ch.minus)
    THEN SkipLiteral(raw, i + 1) ELSE i

\* the type of a literal token, "" when it is not one
LiteralType(token) ==
    IF token = JsonLiterals.null THEN "null"
    ELSE IF token \in JsonLiterals.boolean THEN "boolean"
    ELSE IF token # <<>> /\ (\A k \in 1..Len(token) : IsDigit(token[k]))
            /\ (Len(token) = 1 \/ token[1] # Ch.d0) THEN "number"
    ELSE ""

\* the members of an object as a sequence of [key, value], from the position after "{"
RECURSIVE JsonMembers(_, _, _)
RECURSIVE JsonValue(_, _)

JsonObject(raw, i) ==
    IF CharAt(raw, SkipWhitespace(raw, i)) = Ch.rbrace
    THEN JsonParsed(<<>>, SkipWhitespace(raw, i) + 1)
    ELSE JsonMembers(raw, i, <<>>)

\* a value from position i (leading whitespace skipped by the caller)
JsonValue(raw, i) ==
    IF CharAt(raw, i) = Ch.quote
    THEN The({ IF text.ok THEN JsonParsed(JsonText(text.value), text.nextIndex) ELSE JsonError
               : text \in {JsonString(raw, i + 1, <<>>)} })
    ELSE IF CharAt(raw, i) = Ch.lbrace
    THEN The({ IF object.ok THEN JsonParsed([type |-> "object", text |-> <<>>], object.nextIndex)
               ELSE JsonError
               : object \in {JsonObject(raw, i + 1)} })
    ELSE The({ IF LiteralType(SubSeq(raw, i, end - 1)) = "" THEN JsonError
               ELSE JsonParsed([type |-> LiteralType(SubSeq(raw, i, end - 1)),
                                text |-> SubSeq(raw, i, end - 1)], end)
               : end \in {SkipLiteral(raw, i)} })

\* one member and what follows it: "," and another member, or "}"
JsonMemberValue(raw, key, members) ==
    IF ~key.ok \/ CharAt(raw, SkipWhitespace(raw, key.nextIndex)) # Ch.colon THEN JsonError
    ELSE The({ IF ~value.ok THEN JsonError
               ELSE The({ IF CharAt(raw, after) = Ch.rbrace
                          THEN JsonParsed(Append(members, [key |-> key.value, value |-> value.value]),
                                          after + 1)
                          ELSE IF CharAt(raw, after) = Ch.comma
                          THEN JsonMembers(raw, after + 1,
                                           Append(members, [key |-> key.value, value |-> value.value]))
                          ELSE JsonError
                          : after \in {SkipWhitespace(raw, value.nextIndex)} })
               : value \in {JsonValue(raw, SkipWhitespace(raw, SkipWhitespace(raw, key.nextIndex) + 1))} })

JsonMembers(raw, i, members) ==
    IF CharAt(raw, SkipWhitespace(raw, i)) # Ch.quote THEN JsonError
    ELSE JsonMemberValue(raw, JsonString(raw, SkipWhitespace(raw, i) + 1, <<>>), members)

\* the fields of the parsed object that the workspace reads; of two members with one
\* key the later one counts
ObjectOfMembers(members) ==
    [ name \in {n \in DOMAIN KeyText : \E k \in 1..Len(members) : members[k].key = KeyText[n]} |->
        members[CHOOSE k \in 1..Len(members) :
                    /\ members[k].key = KeyText[name]
                    /\ \A j \in 1..Len(members) : members[j].key = KeyText[name] => j <= k].value ]

\* what the list would hold in place of an instruction if the exception of JSON.parse escaped
Uncaught == [uncaught |-> JsonText(<<83, 121, 110, 116, 97, 120, 69, 114, 114, 111, 114>>)]

\* a parse of the snippet without the try / catch around it
ParseActionSnippetUncaught(snippet) ==
    The({ IF ~object.ok \/ SkipWhitespace(snippet, object.nextIndex) <= Len(snippet) THEN <<Uncaught>>
          ELSE The({ IF Has(parsed, "action") /\ parsed.action.type = "string" THEN <<parsed>> ELSE <<>>
                     : parsed \in {ObjectOfMembers(object.value)} })
          : object \in {JsonObject(snippet, 2)} })

\* try { JSON.parse(snippet) } catch {}; typeof parsed.action !== "string" -> continue.
\* <<>> for a snippet that is skipped, <<instruction>> otherwise
ParseActionSnippet(snippet) ==
    The({ IF ~object.ok \/ SkipWhitespace(snippet, object.nextIndex) <= Len(snippet) THEN <<>>
          ELSE The({ IF Has(parsed, "action") /\ parsed.action.type = "string" THEN <<parsed>> ELSE <<>>
                     : parsed \in {ObjectOfMembers(object.value)} })
          : object \in {JsonObject(snippet, 2)} })

ScanStart ==
    [ inString |-> FALSE, escape |-> FALSE, objectDepth |-> 0, objectStart |-> 0,
      objectSnippets |-> <<>>, ended |-> FALSE ]

\* a pass that would take the braces and brackets inside strings for structure
ScanStepIgnoringStrings(raw, i, s) ==
    IF s.ended THEN s
    ELSE IF raw[i] = Ch.lbrace
    THEN [s EXCEPT !.objectStart = IF s.objectDepth = 0 THEN i ELSE @, !.objectDepth = @ + 1]
    ELSE IF raw[i] = Ch.rbrace
    THEN (IF s.objectDepth = 0 THEN s
          ELSE IF s.objectDepth = 1 /\ s.objectStart >= 1
          THEN [s EXCEPT !.objectDepth = 0, !.objectStart = 0,
                         !.objectSnippets = Append(@, SubSeq(raw, s.objectStart, i))]
          ELSE [s EXCEPT !.objectDepth = @ - 1])
    ELSE IF raw[i] = Ch.rbrack /\ s.objectDepth = 0 THEN [s EXCEPT !.ended = TRUE]
    ELSE s

\* one pass of the for loop of extractBoardActionsFromJsonPrefix, on the character at i;
\* ended: the loop has met its break, a "]" outside strings and objects
ScanStep(raw, i, s) ==
    IF s.ended THEN s
    ELSE IF s.inString
    THEN (IF s.escape THEN [s EXCEPT !.escape = FALSE]
          ELSE IF raw[i] = Ch.bslash THEN [s EXCEPT !.escape = TRUE]
          ELSE IF raw[i] = Ch.quote THEN [s EXCEPT !.inString = FALSE]
          ELSE s)
    ELSE IF raw[i] = Ch.quote THEN [s EXCEPT !.inString = TRUE]
    ELSE IF raw[i] = Ch.lbrace
    THEN [s EXCEPT !.objectStart = IF s.objectDepth = 0 THEN i ELSE @, !.objectDepth = @ + 1]
    ELSE IF raw[i] = Ch.rbrace
    THEN (IF s.objectDepth = 0 THEN s
          ELSE IF s.objectDepth = 1 /\ s.objectStart >= 1
          THEN [s EXCEPT !.objectDepth = 0, !.objectStart = 0,
                         !.objectSnippets = Append(@, SubSeq(raw, s.objectStart, i))]
          ELSE [s EXCEPT !.objectDepth = @ - 1])
    ELSE IF raw[i] = Ch.rbrack /\ s.objectDepth = 0 THEN [s EXCEPT !.ended = TRUE]
    ELSE s

\* the passes of the loop on the characters lo..hi, the first half before the second
RECURSIVE ScanRange(_, _, _, _)
ScanRange(raw, lo, hi, s) ==
    IF lo > hi THEN s
    ELSE IF lo = hi THEN ScanStep(raw, lo, s)
    ELSE The({ ScanRange(raw, ((lo + hi) \div 2) + 1, hi, half)
               : half \in {ScanRange(raw, lo, (lo + hi) \div 2, s)} })

\* the for loop of extractBoardActionsFromJsonPrefix, from position i
ScanObjects(raw, i, s) == ScanRange(raw, i, Len(raw), s)

\* a loop over the snippets that would end at the first one it cannot use
RECURSIVE ParseSnippetsStoppingAtSkipped(_)
ParseSnippetsStoppingAtSkipped(snippets) ==
    IF snippets = <<>> \/ ParseActionSnippet(Head(snippets)) = <<>> THEN <<>>
    ELSE ParseActionSnippet(Head(snippets)) \o ParseSnippetsStoppingAtSkipped(Tail(snippets))

RECURSIVE ParseSnippets(_)
ParseSnippets(snippets) ==
    IF snippets = <<>> THEN <<>>
    ELSE ParseActionSnippet(Head(snippets)) \o ParseSnippets(Tail(snippets))

extractBoardActionsFromJsonPrefix(rawJsonLike) ==
    The({ IF start = 0 THEN <<>>
          ELSE The({ ParseSnippets(scan.objectSnippets)
                        \o extractPartialActionFromObjectPrefix(
                               IF scan.objectDepth > 0 /\ scan.objectStart >= 1
                               THEN SubSeq(rawJsonLike, scan.objectStart, Len(rawJsonLike))
                               ELSE <<>>)
                     : scan \in {ScanObjects(rawJsonLike, start, ScanStart)} })
          : start \in {ValueStartAfterKey(rawJsonLike, BoardActionsKey, Ch.lbrack)} })

---------------------------------------------------------------------------
(* SpecDecode: a response arrives character by character; after every character *)
(* the decoder is run on the buffer received so far.                            *)

MaxUnits == 2
MaxObjects == 2

\* the pieces of a text field: the raw JSON text and the string it stands for.
\* a, the raw character U+4F60, \n, \", \\, \/, \t, \b, \u4f60, \u00E9, \ud83d, \ude00
MessageUnits ==
    { [raw |-> <<97>>, value |-> <<97>>],
      [raw |-> <<20320>>, value |-> <<20320>>],
      [raw |-> <<92, 110>>, value |-> <<10>>],
      [raw |-> <<92, 34>>, value |-> <<34>>],
      [raw |-> <<92, 92>>, value |-> <<92>>],
      [raw |-> <<92, 47>>, value |-> <<47>>],
      [raw |-> <<92, 116>>, value |-> <<9>>],
      [raw |-> <<92, 98>>, value |-> <<8>>],
      [raw |-> <<92, 117, 52, 102, 54, 48>>, value |-> <<20320>>],
      [raw |-> <<92, 117, 48, 48, 69, 57>>, value |-> <<233>>],
      [raw |-> <<92, 117, 100, 56, 51, 100>>, value |-> <<55357>>],
      [raw |-> <<92, 117, 100, 101, 48, 48>>, value |-> <<56832>>] }

RECURSIVE ConcatField(_, _)
ConcatField(units, field) ==
    IF units = <<>> THEN <<>> ELSE units[1][field] \o ConcatField(Tail(units), field)

\* the objects of a list field: plain instructions, one with a key written twice, one
\* with a nested object in a field the schema strips, one with a null content
ActionObjects ==
    { <<123, 34, 97, 99, 116, 105, 111, 110, 34, 58, 34, 117, 112, 100, 97, 116, 101, 95, 115, 101, 99, 116, 105, 111, 110, 34, 44, 34, 115, 101, 99, 116, 105, 111, 110, 95, 116, 105, 116, 108, 101, 34, 58, 34, 65, 34, 44, 34, 99, 111, 110, 116, 101, 110, 116, 34, 58, 34, 120, 92, 110, 121, 34, 125>>,
      <<123, 32, 34, 97, 99, 116, 105, 111, 110, 34, 32, 58, 32, 34, 115, 101, 116, 95, 116, 101, 109, 112, 108, 97, 116, 101, 34, 44, 32, 34, 116, 101, 109, 112, 108, 97, 116, 101, 95, 116, 121, 112, 101, 34, 32, 58, 32, 34, 116, 97, 98, 108, 101, 34, 32, 125>>,
      <<123, 34, 115, 101, 99, 116, 105, 111, 110, 95, 105, 100, 34, 58, 34, 115, 49, 34, 44, 34, 97, 99, 116, 105, 111, 110, 34, 58, 34, 97, 112, 112, 101, 110, 100, 95, 115, 101, 99, 116, 105, 111, 110, 34, 44, 34, 99, 111, 110, 116, 101, 110, 116, 34, 58, 34, 97, 125, 98, 34, 125>>,
      <<123, 34, 97, 99, 116, 105, 111, 110, 34, 58, 34, 117, 112, 100, 97, 116, 101, 95, 115, 101, 99, 116, 105, 111, 110, 34, 44, 34, 115, 101, 99, 116, 105, 111, 110, 95, 116, 105, 116, 108, 101, 34, 58, 34, 65, 34, 44, 34, 99, 111, 110, 116, 101, 110, 116, 34, 58, 34, 120, 34, 44, 34, 99, 111, 110, 116, 101, 110, 116, 34, 58, 34, 121, 34, 125>>,
      <<123, 34, 97, 99, 116, 105, 111, 110, 34, 58, 34, 97, 112, 112, 101, 110, 100, 95, 115, 101, 99, 116, 105, 111, 110, 34, 44, 34, 115, 101, 99, 116, 105, 111, 110, 95, 105, 100, 34, 58, 34, 115, 49, 34, 44, 34, 109, 101, 116, 97, 34, 58, 123, 34, 110, 34, 58, 49, 44, 34, 99, 111, 110, 116, 101, 110, 116, 34, 58, 34, 122, 122, 34, 125, 44, 34, 99, 111, 110, 116, 101, 110, 116, 34, 58, 34, 120, 34, 125>>,
      <<123, 34, 97, 99, 116, 105, 111, 110, 34, 58, 34, 99, 108, 101, 97, 114, 95, 115, 101, 99, 116, 105, 111, 110, 34, 44, 34, 115, 101, 99, 116, 105, 111, 110, 95, 105, 100, 34, 58, 34, 115, 49, 34, 44, 34, 99, 111, 110, 116, 101, 110, 116, 34, 58, 110, 117, 108, 108, 125>> }

\* {"assistant_message":"  ","board_actions":[  ]}
PayloadHead == <<123, 34, 97, 115, 115, 105, 115, 116, 97, 110, 116, 95, 109, 101, 115, 115, 97, 103, 101, 34, 58, 34>>
PayloadMiddle == <<34, 44, 34, 98, 111, 97, 114, 100, 95, 97, 99, 116, 105, 111, 110, 115, 34, 58, 91>>
PayloadTail == <<93, 125>>

\* "ok"
ShortMessage == [raw |-> <<111, 107>>, value |-> <<111, 107>>]

Payload(message, objects) ==
    [ raw |-> PayloadHead \o message.raw \o PayloadMiddle \o Join(objects, <<Ch.comma>>) \o PayloadTail,
      message |-> message.value ]

\* final payloads: every text of one to MaxUnits pieces with an empty list, and the
\* short text with every list of one to MaxObjects objects
Payloads ==
    { Payload([raw |-> ConcatField(units, "raw"), value |-> ConcatField(units, "value")], <<>>)
        : units \in SeqsUpTo(MessageUnits, MaxUnits) \ {<<>>} }
    \cup { Payload(ShortMessage, objects) : objects \in SeqsUpTo(ActionObjects, MaxObjects) \ {<<>>} }

DecodeInit ==
    /\ \E payload \in Payloads :
        dec = [ phase |-> "on", payload |-> payload, received |-> 0,
                text |-> <<>>, prevText |-> <<>>, actions |-> <<>>, prevActions |-> <<>> ]
    /\ core = CoreOff /\ state = StateOff /\ ui = UiOff /\ turn = TurnOff
    /\ storage = StorageOff /\ persist = PersistOff /\ hist = HistOff

\* raw += delta, then both extractors run on raw
ReceiveCharacter ==
    /\ dec.received < Len(dec.payload.raw)
    /\ \E raw \in {SubSeq(dec.payload.raw, 1, dec.received + 1)} :
        dec' = [dec EXCEPT !.received = @ + 1,
                           !.prevText = dec.text,
                           !.text = extractAssistantMessageFromJsonPrefix(raw),
                           !.prevActions = dec.actions,
                           !.actions = extractBoardActionsFromJsonPrefix(raw)]
    /\ UNCHANGED <<core, state, ui, turn, storage, persist, hist>>

DecodeNext == ReceiveCharacter

SpecDecode == DecodeInit /\ [][DecodeNext]_vars

IsPrefix(s, t) == Len(s) <= Len(t) /\ SubSeq(t, 1, Len(s)) = s

\* C3: over the successive prefixes of a valid final payload, the text returned by
\* extractAssistantMessageFromJsonPrefix is a prefix of the text returned for the next
\* longer prefix, and for the whole payload it is the JSON-decoded assistant_message;
\* prefixes that end after a lone backslash or inside a \uXXXX are among them.
C3_TextGrowsToDecodedMessage ==
    /\ IsPrefix(dec.prevText, dec.text)
    /\ dec.received = Len(dec.payload.raw) => dec.text = dec.payload.message

\* the buffer ends inside a \uXXXX of the text field, after a piece already decoded
C3_PrefixEndsInsideUnicodeEscape ==
    /\ dec.received > Len(PayloadHead) + 3
    /\ dec.received < Len(dec.payload.raw)
    /\ dec.payload.raw[dec.received - 2] = Ch.bslash
    /\ dec.payload.raw[dec.received - 3] # Ch.bslash
    /\ dec.payload.raw[dec.received - 1] = Ch.u
    /\ IsHexDigit(dec.payload.raw[dec.received])
    /\ dec.text # <<>> /\ dec.text # dec.payload.message
    /\ IsPrefix(dec.text, dec.payload.message)

\* C4 (as claimed): as the buffer grows, the list returned by
\* extractBoardActionsFromJsonPrefix never gets shorter, and every instruction keeps its
\* position and its kind, each string field surfaced so far staying equal to or a prefix
\* of its later value.
C4_NoInstructionRetracted ==
    /\ Len(dec.prevActions) <= Len(dec.actions)
    /\ \A k \in 1..Len(dec.prevActions) :
        /\ k <= Len(dec.actions)
        /\ \A name \in DOMAIN dec.prevActions[k] :
            /\ Has(dec.actions[k], name)
            /\ dec.actions[k][name].type = "string"
            /\ IF name = "action" THEN dec.actions[k][name].text = dec.prevActions[k][name].text
               ELSE IsPrefix(dec.prevActions[k][name].text, dec.actions[k][name].text)

---------------------------------------------------------------------------
(* SpecStack: pushUndoSnapshot called again and again on its own result, from   *)
(* the empty stack, with snapshots of pairwise distinct content.                *)

MaxPushes == 120

\* the decimal digits of a natural number
RECURSIVE Decimal(_)
Decimal(k) == IF k < 10 THEN <<Ch.d0 + k>> ELSE Decimal(k \div 10) \o <<Ch.d0 + (k % 10)>>

\* { sections: [], rawMarkdown: `snapshot-${i}` }
SnapshotNo(i) ==
    [ sections |-> <<>>,
      rawMarkdown |-> <<115, 110, 97, 112, 115, 104, 111, 116, Ch.minus>> \o Decimal(i) ]

StackInit ==
    /\ core = [phase |-> "stack", stack |-> <<>>, pushed |-> 0]
    /\ state = StateOff /\ ui = UiOff /\ turn = TurnOff /\ storage = StorageOff
    /\ persist = PersistOff /\ dec = DecOff /\ hist = HistOff

\* stack = pushUndoSnapshot(stack, snapshot i), i = 0, 1, 2, ...
PushSnapshot ==
    /\ core.pushed < MaxPushes
    /\ core' = [core EXCEPT !.stack = pushUndoSnapshot(@, SnapshotNo(core.pushed)),
                            !.pushed = @ + 1]
    /\ UNCHANGED <<state, ui, turn, storage, persist, dec, hist>>

StackNext == PushSnapshot

SpecStack == StackInit /\ [][StackNext]_vars

\* C11: after k pushes of pairwise content-distinct snapshots (numbered 0 .. k-1) onto
\* the empty stack, the stack holds the min(k, UNDO_STACK_LIMIT) most recently pushed
\* snapshots, oldest first; beyond the limit its first element is snapshot
\* k - UNDO_STACK_LIMIT.
C11_StackHoldsMostRecentInPushOrder ==
    /\ Len(core.stack) = (IF core.pushed < UNDO_STACK_LIMIT THEN core.pushed ELSE UNDO_STACK_LIMIT)
    /\ \A i \in 1..Len(core.stack) :
          core.stack[i] = SnapshotNo(((core.pushed - Len(core.stack)) + i) - 1)
    /\ core.pushed > UNDO_STACK_LIMIT => core.stack[1] = SnapshotNo(core.pushed - UNDO_STACK_LIMIT)

\* more snapshots were pushed than the stack keeps, and the oldest ones are gone
C11_StackCapped ==
    /\ core.pushed = UNDO_STACK_LIMIT + 5
    /\ Len(core.stack) = UNDO_STACK_LIMIT
    /\ core.stack[1].rawMarkdown # SnapshotNo(0).rawMarkdown

---------------------------------------------------------------------------
(* SpecDecodeAny: both extractors run on buffers that need not be a prefix of   *)
(* any valid response: every concatenation of up to MaxTokens tokens.           *)

MaxTokens == 4

\* the two keys, then : space line-feed " [ ] { } \ \u12 a, then the objects {bad},
\* {"action":"clear_section"}, {"action":1} and the truncated
\* {"action":"clear_section","section_id":"s
AnyTokens ==
    { AssistantMessageKey,
      BoardActionsKey,
      <<58>>,
      <<32>>,
      <<10>>,
      <<34>>,
      <<91>>,
      <<93>>,
      <<123>>,
      <<125>>,
      <<92>>,
      <<92, 117, 49, 50>>,
      <<97>>,
      <<123, 98, 97, 100, 125>>,
      <<123, 34, 97, 99, 116, 105, 111, 110, 34, 58, 34, 99, 108, 101, 97, 114, 95, 115, 101, 99, 116, 105, 111, 110, 34, 125>>,
      <<123, 34, 97, 99, 116, 105, 111, 110, 34, 58, 49, 125>>,
      <<123, 34, 97, 99, 116, 105, 111, 110, 34, 58, 34, 99, 108, 101, 97, 114, 95, 115, 101, 99, 116, 105, 111, 110, 34, 44, 34, 115, 101, 99, 116, 105, 111, 110, 95, 105, 100, 34, 58, 34, 115>> }

MalformedObject == <<123, 98, 97, 100, 125>>

AnyInit ==
    /\ dec = [ phase |-> "any", raw |-> <<>>, tokens |-> 0,
               text |-> extractAssistantMessageFromJsonPrefix(<<>>),
               actions |-> extractBoardActionsFromJsonPrefix(<<>>) ]
    /\ core = CoreOff /\ state = StateOff /\ ui = UiOff /\ turn = TurnOff
    /\ storage = StorageOff /\ persist = PersistOff /\ hist = HistOff

\* both extractors run on the buffer with one more token
ReceiveToken ==
    /\ dec.tokens < MaxTokens
    /\ \E token \in AnyTokens :
        \E raw \in {dec.raw \o token} :
            dec' = [ phase |-> "any", raw |-> raw, tokens |-> dec.tokens + 1,
                     text |-> extractAssistantMessageFromJsonPrefix(raw),
                     actions |-> extractBoardActionsFromJsonPrefix(raw) ]
    /\ UNCHANGED <<core, state, ui, turn, storage, persist, hist>>

AnyNext == ReceiveToken

SpecDecodeAny == AnyInit /\ [][AnyNext]_vars

\* what follows the first occurrence of the key in the buffer, leading whitespace dropped
AfterKey(raw, key) == TrimStart(SubSeq(raw, IndexOf(raw, key) + Len(key), Len(raw)))

\* the buffer does not hold the key followed by its colon and by the opening character
NotArrived(raw, key, opening) ==
    \/ ~(\E i \in 1..Len(raw) : IsPrefix(key, SubSeq(raw, i, Len(raw))))
    \/ AfterKey(raw, key) = <<>>
    \/ AfterKey(raw, key)[1] # Ch.colon
    \/ TrimStart(Tail(AfterKey(raw, key))) = <<>>
    \/ TrimStart(Tail(AfterKey(raw, key)))[1] # opening

\* C20: on every buffer both extractors return a value: a string, and a list whose
\* elements are instructions with a kind (an exception escaping the parse of an object
\* would be an element that is none). The text is "" when "assistant_message", its colon
\* or the opening quote has not arrived, the list is empty when "board_actions", its colon
\* or the opening bracket has not arrived, and both are empty for a blank buffer.
C20_DecodersTotal ==
    dec.phase = "any" =>
        /\ dec.text \in Seq(Nat)
        /\ \A k \in 1..Len(dec.actions) :
              Has(dec.actions[k], "action") /\ dec.actions[k].action.type = "string"
        /\ NotArrived(dec.raw, AssistantMessageKey, Ch.quote) => dec.text = <<>>
        /\ NotArrived(dec.raw, BoardActionsKey, Ch.lbrack) => dec.actions = <<>>
        /\ (\A i \in 1..Len(dec.raw) : IsSpace(dec.raw[i])) => (dec.text = <<>> /\ dec.actions = <<>>)

\* the list has opened and holds an object that is not JSON; it is skipped
C20_MalformedObjectSkipped ==
    /\ dec.phase = "any"
    /\ dec.raw = BoardActionsKey \o <<Ch.colon, Ch.lbrack>> \o MalformedObject
    /\ dec.actions = <<>>

---------------------------------------------------------------------------
(* SpecList: extractBoardActionsFromJsonPrefix run on a list made of closed     *)
(* objects, possibly followed by an object the buffer ends in, or by the end of *)
(* the list and more text.                                                      *)

MaxItems == 2

\* closed objects: the text and the instruction JSON.parse makes of it, <<>> when
\* the object is skipped
ClosedItems ==
    { \* {"action":"clear_section","section_id":"s1"}
      [raw |-> <<123, 34, 97, 99, 116, 105, 111, 110, 34, 58, 34, 99, 108, 101, 97, 114, 95, 115, 101, 99, 116, 105, 111, 110, 34, 44, 34, 115, 101, 99, 116, 105, 111, 110, 95, 105, 100, 34, 58, 34, 115, 49, 34, 125>>,
       parsed |-> <<[action |-> JsonText(<<99, 108, 101, 97, 114, 95, 115, 101, 99, 116, 105, 111, 110>>), section_id |-> JsonText(<<115, 49>>)]>>],
      \* {"section_id":"s1"}
      [raw |-> <<123, 34, 115, 101, 99, 116, 105, 111, 110, 95, 105, 100, 34, 58, 34, 115, 49, 34, 125>>,
       parsed |-> <<>>],
      \* {bad}
      [raw |-> <<123, 98, 97, 100, 125>>,
       parsed |-> <<>>],
      \* {"action":1}
      [raw |-> <<123, 34, 97, 99, 116, 105, 111, 110, 34, 58, 49, 125>>,
       parsed |-> <<>>],
      \* {"action":"update_section","content":"a}{]\"b"}
      [raw |-> <<123, 34, 97, 99, 116, 105, 111, 110, 34, 58, 34, 117, 112, 100, 97, 116, 101, 95, 115, 101, 99, 116, 105, 111, 110, 34, 44, 34, 99, 111, 110, 116, 101, 110, 116, 34, 58, 34, 97, 125, 123, 93, 92, 34, 98, 34, 125>>,
       parsed |-> <<[action |-> JsonText(<<117, 112, 100, 97, 116, 101, 95, 115, 101, 99, 116, 105, 111, 110>>), content |-> JsonText(<<97, 125, 123, 93, 34, 98>>)]>>],
      \* {"action":"foo"}
      [raw |-> <<123, 34, 97, 99, 116, 105, 111, 110, 34, 58, 34, 102, 111, 111, 34, 125>>,
       parsed |-> <<[action |-> JsonText(<<102, 111, 111>>)]>>] }

\* what the buffer ends in: nothing, or an open object with the fields read so far,
\* <<>> when no kind is among them
OpenItems ==
    { \* nothing
      [raw |-> <<>>,
       parsed |-> <<>>],
      \* {"action":"clear_section","section_id":"s
      [raw |-> <<123, 34, 97, 99, 116, 105, 111, 110, 34, 58, 34, 99, 108, 101, 97, 114, 95, 115, 101, 99, 116, 105, 111, 110, 34, 44, 34, 115, 101, 99, 116, 105, 111, 110, 95, 105, 100, 34, 58, 34, 115>>,
       parsed |-> <<[action |-> JsonText(<<99, 108, 101, 97, 114, 95, 115, 101, 99, 116, 105, 111, 110>>), section_id |-> JsonText(<<115>>)]>>],
      \* {"section_id":"s1","conte
      [raw |-> <<123, 34, 115, 101, 99, 116, 105, 111, 110, 95, 105, 100, 34, 58, 34, 115, 49, 34, 44, 34, 99, 111, 110, 116, 101>>,
       parsed |-> <<>>],
      \* {"action":"upd
      [raw |-> <<123, 34, 97, 99, 116, 105, 111, 110, 34, 58, 34, 117, 112, 100>>,
       parsed |-> <<>>],
      \* {"content":"a}{]\"b","action":"append_section
      [raw |-> <<123, 34, 99, 111, 110, 116, 101, 110, 116, 34, 58, 34, 97, 125, 123, 93, 92, 34, 98, 34, 44, 34, 97, 99, 116, 105, 111, 110, 34, 58, 34, 97, 112, 112, 101, 110, 100, 95, 115, 101, 99, 116, 105, 111, 110>>,
       parsed |-> <<[content |-> JsonText(<<97, 125, 123, 93, 34, 98>>), action |-> JsonText(<<97, 112, 112, 101, 110, 100, 95, 115, 101, 99, 116, 105, 111, 110>>)]>>],
      \* {"action":"update_section","content":"x\
      [raw |-> <<123, 34, 97, 99, 116, 105, 111, 110, 34, 58, 34, 117, 112, 100, 97, 116, 101, 95, 115, 101, 99, 116, 105, 111, 110, 34, 44, 34, 99, 111, 110, 116, 101, 110, 116, 34, 58, 34, 120, 92>>,
       parsed |-> <<[action |-> JsonText(<<117, 112, 100, 97, 116, 101, 95, 115, 101, 99, 116, 105, 111, 110>>), content |-> JsonText(<<120>>)]>>] }

\* {"board_actions":[   and   ],"more":[{"action":"clear_section"}]}
ListHead == <<123, 34, 98, 111, 97, 114, 100, 95, 97, 99, 116, 105, 111, 110, 115, 34, 58, 91>>
ListTail == <<93, 44, 34, 109, 111, 114, 101, 34, 58, 91, 123, 34, 97, 99, 116, 105, 111, 110, 34, 58, 34, 99, 108, 101, 97, 114, 95, 115, 101, 99, 116, 105, 111, 110, 34, 125, 93, 125>>

\* the buffers: the closed objects separated by commas, then an open object or the tail
ListEndings == {"open", "ended"}

ListBuffer(items, open, ending) ==
    ListHead \o Join([k \in 1..Len(items) |-> items[k].raw], <<Ch.comma>>)
    \o (IF ending = "ended" THEN ListTail
        ELSE IF open.raw = <<>> THEN <<>>
        ELSE (IF items = <<>> THEN <<>> ELSE <<Ch.comma>>) \o open.raw)

ListInit ==
    /\ \E items \in SeqsUpTo(ClosedItems, MaxItems), open \in OpenItems, ending \in ListEndings :
        dec = [ phase |-> "list", items |-> items, open |-> open, ending |-> ending,
                raw |-> ListBuffer(items, open, ending), decoded |-> FALSE,
                actions |-> <<>>, snippets |-> <<>> ]
    /\ core = CoreOff /\ state = StateOff /\ ui = UiOff /\ turn = TurnOff
    /\ storage = StorageOff /\ persist = PersistOff /\ hist = HistOff

\* the extractor runs on the buffer; snippets are the objectSnippets of its scan
DecodeList ==
    /\ dec.phase = "list" /\ ~dec.decoded
    /\ dec' = [dec EXCEPT !.decoded = TRUE,
                          !.actions = extractBoardActionsFromJsonPrefix(dec.raw),
                          !.snippets = ScanObjects(dec.raw,
                                                   ValueStartAfterKey(dec.raw, BoardActionsKey, Ch.lbrack),
                                                   ScanStart).objectSnippets]
    /\ UNCHANGED <<core, state, ui, turn, storage, persist, hist>>

ListNext == DecodeList

SpecList == ListInit /\ [][ListNext]_vars

\* the instructions of the closed objects, in the order of the buffer
RECURSIVE ParsedOf(_)
ParsedOf(items) == IF items = <<>> THEN <<>> ELSE Head(items).parsed \o ParsedOf(Tail(items))

\* C21: the list returned holds, in the order of the buffer, one instruction for each
\* closed object with a kind, objects without a kind or that are not JSON being skipped
\* without effect on the ones after them, and, when the buffer ends inside an object, one
\* more element at the end exactly when a recognized kind is among the fields read so
\* far, with those fields, a truncated string being read up to the end of the buffer
C21_ClosedObjectsThenPartial ==
    (dec.phase = "list" /\ dec.decoded)
    => dec.actions = ParsedOf(dec.items) \o (IF dec.ending = "open" THEN dec.open.parsed ELSE <<>>)

\* a skipped object came before a kept one, and the buffer ended in an object with a kind
C21_SkippedThenKeptThenPartial ==
    /\ dec.phase = "list" /\ dec.decoded /\ dec.ending = "open"
    /\ Len(dec.items) = 2 /\ dec.items[1].parsed = <<>> /\ dec.items[2].parsed # <<>>
    /\ dec.open.parsed # <<>> /\ Len(dec.actions) = 2

\* the text of the object has a brace, a bracket and an escaped quote inside a string
HoldsStructureInString(item) ==
    \E i \in 2..(Len(item.raw) - 4) :
        SubSeq(item.raw, i, i + 4) = <<Ch.rbrace, Ch.lbrace, Ch.rbrack, Ch.bslash, Ch.quote>>

\* C22: braces, brackets and escaped quotes inside strings are not structural: the scan
\* cuts out exactly the complete top-level objects of the list, each from its opening to
\* its own closing brace, in order, and nothing after the "]" that ends the list
C22_ScanCutsCompleteObjects ==
    (dec.phase = "list" /\ dec.decoded)
    => /\ Len(dec.snippets) = Len(dec.items)
       /\ \A k \in 1..Len(dec.items) : dec.snippets[k] = dec.items[k].raw

\* an object with } { ] \" in its content was followed by another object and by the end
\* of the list, with an object after it
C22_StructureInsideString ==
    /\ dec.phase = "list" /\ dec.decoded /\ dec.ending = "ended"
    /\ Len(dec.items) = 2 /\ HoldsStructureInString(dec.items[1])
    /\ dec.items[2].parsed # <<>> /\ Len(dec.actions) = 2

---------------------------------------------------------------------------
(* SpecCompact: compactPersistedSnapshot applied to snapshots whose numbers of  *)
(* messages, sections and history entries, and whose text lengths, lie around   *)
(* the limits of the three profiles.                                            *)

TextOfLength(n) == [i \in 1..n |-> Ch.a]

SectionOfLength(k, len) ==
    [id |-> "s" \o ToString(k), title |-> TextOfLength(len), content |-> TextOfLength(len), source |-> "user"]

\* a snapshot of m messages, s sections, u undo entries and r redo entries, every text
\* of it len characters long; the k-th history entry holds k in its one section
SnapshotOfSizes(m, s, u, r, len) ==
    [ sessionId |-> "session",
      chatMessages |-> [k \in 1..m |-> [id |-> "m" \o ToString(k), role |-> "user",
                                        content |-> TextOfLength(len)]],
      boardSections |-> [k \in 1..s |-> SectionOfLength(k, len)],
      undoStack |-> [k \in 1..u |-> getBoardContent(<<SectionOfLength(k, len)>>)],
      redoStack |-> [k \in 1..r |-> getBoardContent(<<SectionOfLength(k, len)>>)],
      errorState |-> [hasError |-> FALSE, retryCount |-> 0] ]

CompactMessageCounts == {0, 36, 37, 141}
CompactSectionCounts == {1, 12, 13, 41}
CompactStackCounts == {0, 12, 26, 51}
CompactTextLengths == {80, 81, 111, 141, 901, 1601, 2801, 5501, 9001}

CompactSnapshots ==
    { SnapshotOfSizes(m, n, u, r, 1) : m \in CompactMessageCounts, n \in CompactSectionCounts,
                                       u \in CompactStackCounts, r \in CompactStackCounts }
    \cup { SnapshotOfSizes(2, 2, 2, 2, len) : len \in CompactTextLengths }

CompactInit ==
    /\ \E snapshot \in CompactSnapshots, profile \in {"normal", "aggressive", "minimal"} :
        persist = [phase |-> "compact", snapshot |-> snapshot, profile |-> profile, done |-> FALSE]
    /\ core = CoreOff /\ state = StateOff /\ ui = UiOff /\ turn = TurnOff
    /\ storage = StorageOff /\ dec = DecOff /\ hist = HistOff

CompactSnapshot ==
    /\ persist.phase = "compact" /\ ~persist.done
    /\ persist' = [ phase |-> "compact", snapshot |-> persist.snapshot, profile |-> persist.profile,
                    done |-> TRUE,
                    output |-> compactPersistedSnapshot(persist.snapshot, persist.profile) ]
    /\ UNCHANGED <<core, state, ui, turn, storage, dec, hist>>

CompactNext == CompactSnapshot

SpecCompact == CompactInit /\ [][CompactNext]_vars

\* the text is at most cap characters long and, when it is not the text it was made of,
\* it ends with the truncation marker
WithinCap(text, original, cap) ==
    /\ Len(text) <= cap
    /\ text # original =>
          /\ Len(text) >= Len(TruncationMarker)
          /\ SubSeq(text, (Len(text) - Len(TruncationMarker)) + 1, Len(text)) = TruncationMarker

\* the sections kept are the last ones of the input, each within the caps of title and content
SectionsWithin(kept, sections, limits) ==
    /\ Len(kept) <= limits.boardSections /\ Len(kept) <= Len(sections)
    /\ \A i \in 1..Len(kept) :
          /\ WithinCap(kept[i].title, sections[(Len(sections) - Len(kept)) + i].title, limits.sectionTitleChars)
          /\ WithinCap(kept[i].content, sections[(Len(sections) - Len(kept)) + i].content,
                       limits.boardSectionChars)

\* the entries kept are at most max, the last ones of the input, their sections within the caps
StackWithin(kept, stack, max, limits) ==
    /\ Len(kept) <= max /\ Len(kept) <= Len(stack)
    /\ \A i \in 1..Len(kept) :
          SectionsWithin(kept[i].sections, stack[(Len(stack) - Len(kept)) + i].sections, limits)

\* C23: for every profile and snapshot the output of compactPersistedSnapshot holds at
\* most the profile's number of messages, sections, undo entries and redo entries, every
\* message content, section content and section title is within the profile's cap for
\* it, a text that was cut ending with the truncation marker, and the minimal profile
\* gives empty undo and redo stacks
C23_CompactedWithinLimits ==
    (persist.phase = "compact" /\ persist.done)
    => /\ Len(persist.output.chatMessages) <= PROFILE_LIMITS[persist.profile].chatMessages
       /\ Len(persist.output.chatMessages) <= Len(persist.snapshot.chatMessages)
       /\ \A i \in 1..Len(persist.output.chatMessages) :
             WithinCap(persist.output.chatMessages[i].content,
                       persist.snapshot.chatMessages[(Len(persist.snapshot.chatMessages)
                                                        - Len(persist.output.chatMessages)) + i].content,
                       PROFILE_LIMITS[persist.profile].chatMessageChars)
       /\ SectionsWithin(persist.output.boardSections, persist.snapshot.boardSections,
                         PROFILE_LIMITS[persist.profile])
       /\ StackWithin(persist.output.undoStack, persist.snapshot.undoStack,
                      PROFILE_LIMITS[persist.profile].undoStack, PROFILE_LIMITS[persist.profile])
       /\ StackWithin(persist.output.redoStack, persist.snapshot.redoStack,
                      PROFILE_LIMITS[persist.profile].redoStack, PROFILE_LIMITS[persist.profile])
       /\ persist.profile = "minimal" => (persist.output.undoStack = <<>> /\ persist.output.redoStack = <<>>)

\* a message one character over the cap of its profile was cut, and a title too
C23_TextsCutAtCap ==
    /\ persist.phase = "compact" /\ persist.done /\ persist.profile = "minimal"
    /\ Len(persist.snapshot.chatMessages) = 2
    /\ Len(persist.snapshot.chatMessages[1].content) = 901
    /\ persist.output.chatMessages[1].content # persist.snapshot.chatMessages[1].content
    /\ persist.output.boardSections[1].title # persist.snapshot.boardSections[1].title

\* more entries than the profile keeps went in, and undo and redo entries were dropped
C23_EntriesDropped ==
    /\ persist.phase = "compact" /\ persist.done /\ persist.profile = "aggressive"
    /\ Len(persist.snapshot.chatMessages) = 141 /\ Len(persist.output.chatMessages) = 80
    /\ Len(persist.snapshot.boardSections) = 41 /\ Len(persist.output.boardSections) = 24
    /\ Len(persist.snapshot.undoStack) = 26 /\ Len(persist.output.undoStack) = 24
    /\ Len(persist.snapshot.redoStack) = 26 /\ Len(persist.output.redoStack) = 12

---------------------------------------------------------------------------
(* SpecCore, continued: identifiers and titles of the sections of a result      *)

IdsOf(sections) == {sections[i].id : i \in 1..Len(sections)}

\* the k-th pass of the forEach appended a section
AppendedAt(k) == Len(SectionsAfter(k)) = Len(SectionsBefore(k)) + 1

---------------------------------------------------------------------------
(* SpecHistory: the undo and redo stacks of a long session. The session starts  *)
(* in a state that manual edits and undos have led to from the default state,   *)
(* or in the state a reload finds after such a session was persisted; then the  *)
(* operations on the board interleave. An agent turn is taken from the send to  *)
(* the final application of its response.                                        *)

MaxHistoryOps == 3

\* the k-th edit of the prefix: the n sections of the board retyped
TypedBoard(n, k) ==
    [i \in 1..n |->
        [ id |-> IF n = 1 THEN "typed" ELSE "typed-" \o ToString(i),
          title |-> IF n = 1 THEN StrA ELSE StrA \o Digits2(i),
          content |-> IF k % 2 = 1 THEN StrX ELSE StrY, source |-> "user" ]]

\* handleBoardSectionsChange for the edits lo..hi, each one snapshotted
RECURSIVE EditedRange(_, _, _, _)
EditedRange(st, n, lo, hi) ==
    IF lo > hi THEN st
    ELSE IF lo = hi THEN handleBoardSectionsChange(st, TypedBoard(n, lo), TRUE)
    ELSE The({ EditedRange(half, n, ((lo + hi) \div 2) + 1, hi)
               : half \in {EditedRange(st, n, lo, (lo + hi) \div 2)} })

\* handleUndo applied hi - lo + 1 times
RECURSIVE UndoneRange(_, _, _)
UndoneRange(st, lo, hi) ==
    IF lo > hi THEN st
    ELSE IF lo = hi THEN handleUndo(st)
    ELSE The({ UndoneRange(half, ((lo + hi) \div 2) + 1, hi)
               : half \in {UndoneRange(st, lo, (lo + hi) \div 2)} })

HistoryEdits == {0, 80, 81}
HistoryUndos == {0, 1, 79, 80}

PrefilledStates ==
    { UndoneRange(edited, 1, m)
      : edited \in {EditedRange(defaultWorkspaceState("session"), 1, 1, n) : n \in HistoryEdits},
        m \in HistoryUndos }

\* sessions whose board holds one section more than boardSections of the normal profile
WideBoardStates ==
    { UndoneRange(EditedRange(defaultWorkspaceState("session"), 41, 1, 3), 1, m) : m \in {0, 1} }

\* the state a reload finds: the snapshot persistWorkspaceSnapshot stored, setItem accepting
ReloadedStates ==
    { InitialWorkspaceState(
          persistWorkspaceSnapshot(createPersistedSnapshot(st),
                                   [kind |-> "outcomes", accept |-> [i \in 1..3 |-> TRUE]]).stored,
          "session")
      : st \in WideBoardStates }

\* section list and stacks, as the claims about undo and redo compare them
BoardAndStacks(st) ==
    [boardSections |-> st.boardSections, undoStack |-> st.undoStack, redoStack |-> st.redoStack]

HistoryInit ==
    /\ state \in PrefilledStates \cup ReloadedStates
    /\ ui = [streamBoardPreview |-> <<>>, editSnapshotDue |-> TRUE, fresh |-> 1]
    /\ hist = [lastOp |-> "init", prevOp |-> "init", ops |-> 0, unchanged |-> TRUE,
               before |-> BoardAndStacks(state), before2 |-> BoardAndStacks(state)]
    /\ turn = TurnOff /\ core = CoreOff /\ storage = StorageOff /\ persist = PersistOff /\ dec = DecOff

HistoryStep(op) ==
    [ lastOp |-> op, prevOp |-> hist.lastOp, ops |-> hist.ops + 1, unchanged |-> state' = state,
      before |-> BoardAndStacks(state), before2 |-> hist.before ]

\* responses of the agent service whose instructions carry identifiers
HistoryResponses ==
    AgentResponses \cup
    { [ assistant_message |-> StrA,
        board_actions |-> <<[action |-> "create_structure", section_id |-> "s3", section_title |-> StrB,
                             content |-> StrX]>>,
        margin_notes |-> NoNotes ],
      [ assistant_message |-> StrA,
        board_actions |-> <<[action |-> "update_section", section_id |-> "typed", section_title |-> StrB,
                             content |-> StrHtmlX]>>,
        margin_notes |-> NoNotes ] }

\* handleSendMessage, then finalizeAgentSuccess with the response
HistoryAgentTurn ==
    /\ hist.ops < MaxHistoryOps /\ ~state.isAiTyping
    /\ \E response \in HistoryResponses :
        \E after \in {finalizeAgentSuccess(
                          handleSendMessage(state, makeId(ui.fresh), makeId(ui.fresh + 1), StrA),
                          makeId(ui.fresh + 1), response, ui.fresh + 2)} :
           /\ state' = after.state
           /\ ui' = [ui EXCEPT !.fresh = after.fresh]
    /\ hist' = HistoryStep("finalize")
    /\ UNCHANGED <<turn, core, storage, persist, dec>>

\* what the editor hands over: the first or the last section retyped, the board emptied,
\* or a first section typed into an empty board
HistoryEditedBoards(sections) ==
    { [sections EXCEPT ![i].content = c] : i \in {1, Len(sections)} \cap (1..Len(sections)), c \in {StrX, StrY} }
        \cup {<<>>}
        \cup (IF sections = <<>> THEN {TypedBoard(1, 1)} ELSE {})

HistoryEdit ==
    /\ hist.ops < MaxHistoryOps
    /\ \E nextSections \in HistoryEditedBoards(state.boardSections), shouldSnapshot \in BOOLEAN :
        state' = handleBoardSectionsChange(state, nextSections, shouldSnapshot)
    /\ hist' = HistoryStep("edit")
    /\ UNCHANGED <<ui, turn, core, storage, persist, dec>>

HistoryPin ==
    /\ hist.ops < MaxHistoryOps
    /\ \E messageId \in MessageIds : state' = handlePinToBoard(state, messageId, ui.fresh)
    /\ ui' = [ui EXCEPT !.fresh = @ + 1]
    /\ hist' = HistoryStep("pin")
    /\ UNCHANGED <<turn, core, storage, persist, dec>>

HistoryAcceptNote ==
    /\ hist.ops < MaxHistoryOps
    /\ \E button \in NoteButtons(FALSE) :
        state' = handleAcceptMarginNote(state, button[1], button[2], ui.fresh)
    /\ ui' = [ui EXCEPT !.fresh = @ + 1]
    /\ hist' = HistoryStep("acceptNote")
    /\ UNCHANGED <<turn, core, storage, persist, dec>>

HistoryUndoNote ==
    /\ hist.ops < MaxHistoryOps
    /\ \E button \in NoteButtons(TRUE) :
        state' = handleUndoMarginNoteAccept(state, button[1], button[2])
    /\ hist' = HistoryStep("undoNote")
    /\ UNCHANGED <<ui, turn, core, storage, persist, dec>>

\* handleUndo and handleRedo are called with any stack: they return prev for an empty one
HistoryUndo ==
    /\ hist.ops < MaxHistoryOps
    /\ state' = handleUndo(state)
    /\ hist' = HistoryStep("undo")
    /\ UNCHANGED <<ui, turn, core, storage, persist, dec>>

HistoryRedo ==
    /\ hist.ops < MaxHistoryOps
    /\ state' = handleRedo(state)
    /\ hist' = HistoryStep("redo")
    /\ UNCHANGED <<ui, turn, core, storage, persist, dec>>

HistoryNext ==
    \/ HistoryAgentTurn \/ HistoryEdit \/ HistoryPin \/ HistoryAcceptNote \/ HistoryUndoNote
    \/ HistoryUndo \/ HistoryRedo

SpecHistory == HistoryInit /\ [][HistoryNext]_vars

\* C27: in every state reached from empty stacks by final agent applications, manual
\* edits, pins, margin-note acceptances and their undo, undo and redo, the undo stack and
\* the redo stack each hold at most UNDO_STACK_LIMIT snapshots
C27_StacksBounded ==
    /\ Len(state.undoStack) <= UNDO_STACK_LIMIT
    /\ Len(state.redoStack) <= UNDO_STACK_LIMIT

\* a redo filled the undo stack to the limit without pushUndoSnapshot
C27_RedoFilledUndoStack ==
    /\ hist.lastOp = "redo"
    /\ Len(state.undoStack) = UNDO_STACK_LIMIT /\ Len(hist.before.undoStack) = UNDO_STACK_LIMIT - 1

\* an undo filled the redo stack to the limit
C27_UndoFilledRedoStack ==
    /\ hist.lastOp \in {"undo", "undoNote"}
    /\ Len(state.redoStack) = UNDO_STACK_LIMIT /\ Len(hist.before.redoStack) = UNDO_STACK_LIMIT - 1

\* the section list of every state of the session has pairwise distinct identifiers
SessionIdentifiersUnique == UniqueIds(state.boardSections)

\* the sum of the two lengths is what undo and redo keep
StacksTogetherBounded == Len(state.undoStack) + Len(state.redoStack) <= UNDO_STACK_LIMIT

UndoThenRedo == hist.lastOp = "redo" /\ hist.prevOp = "undo" /\ hist.before2.undoStack # <<>>
RedoThenUndo == hist.lastOp = "undo" /\ hist.prevOp = "redo" /\ hist.before2.redoStack # <<>>

\* C29 (as claimed): with a non-empty undo stack, undo followed at once by redo restores
\* the section list, the undo stack (snapshot by snapshot, sections and rawMarkdown) and
\* the redo stack; with a non-empty redo stack, so does redo followed at once by undo;
\* undo on an empty undo stack and redo on an empty redo stack leave the state unchanged
C29_UndoRedoInverse ==
    /\ UndoThenRedo => BoardAndStacks(state) = hist.before2
    /\ RedoThenUndo => BoardAndStacks(state) = hist.before2
    /\ (hist.lastOp = "undo" /\ hist.before.undoStack = <<>>) => hist.unchanged
    /\ (hist.lastOp = "redo" /\ hist.before.redoStack = <<>>) => hist.unchanged

\* every snapshot of the stack is what getBoardContent gives for its sections
SnapshotsConsistent(stack) == \A i \in 1..Len(stack) : stack[i] = getBoardContent(stack[i].sections)

SectionsOfStack(stack) == [i \in 1..Len(stack) |-> stack[i].sections]

\* what holds of undo and redo in every state: the section list and the section lists of
\* both stacks are restored, and the snapshots too when those of the stacks were consistent
UndoRedoRestoreSections ==
    (UndoThenRedo \/ RedoThenUndo)
    => /\ state.boardSections = hist.before2.boardSections
       /\ SectionsOfStack(state.undoStack) = SectionsOfStack(hist.before2.undoStack)
       /\ SectionsOfStack(state.redoStack) = SectionsOfStack(hist.before2.redoStack)
       /\ (SnapshotsConsistent(hist.before2.undoStack) /\ SnapshotsConsistent(hist.before2.redoStack))
             => BoardAndStacks(state) = hist.before2

---------------------------------------------------------------------------
(* SpecSync: the post-pass of applyBoardActions on section lists whose lead      *)
(* title is blank, the default title, a numbered label or a title of its own.    *)
(* Next to each title stands whether it is a placeholder, next to each content   *)
(* whether it holds a non-empty line and the label to be derived from it.        *)

\* "小节 1", "小节 x", "小节 2", "主题:x", "主题："
StrSection1 == <<23567, 33410, Ch.sp, Ch.d1>>
StrSectionX == <<23567, 33410, Ch.sp, Ch.x>>
StrSection2 == <<23567, 33410, Ch.sp, 50>>
StrTopicX == <<20027, 39064, Ch.colon, Ch.x>>
StrTopicOnly == <<20027, 39064, Ch.fwcolon>>

SyncTitles ==
    { [title |-> <<>>, placeholder |-> TRUE],
      [title |-> DEFAULT_DOCUMENT_TITLE, placeholder |-> TRUE],
      [title |-> StrSection1, placeholder |-> TRUE],
      [title |-> StrSectionX, placeholder |-> FALSE],
      [title |-> StrA, placeholder |-> FALSE] }

SyncContents ==
    { [content |-> <<>>, hasLine |-> FALSE, label |-> <<>>],
      [content |-> <<Ch.sp, Ch.sp>>, hasLine |-> FALSE, label |-> <<>>],
      [content |-> StrX, hasLine |-> TRUE, label |-> StrX],
      [content |-> <<Ch.lf, Ch.sp, Ch.y, Ch.sp, Ch.lf, Ch.z>>, hasLine |-> TRUE, label |-> StrY],
      [content |-> StrTopicX, hasLine |-> TRUE, label |-> StrX],
      [content |-> StrTopicOnly, hasLine |-> TRUE, label |-> <<>>],
      [content |-> TextOfLength(25), hasLine |-> TRUE, label |-> TextOfLength(24) \o <<Ch.ellipsis>>],
      [content |-> StrSection2, hasLine |-> TRUE, label |-> StrSection2],
      [content |-> DEFAULT_DOCUMENT_TITLE, hasLine |-> TRUE, label |-> DEFAULT_DOCUMENT_TITLE] }

SyncSection(id, t, c) == [id |-> id, title |-> t.title, content |-> c.content, source |-> "user"]

SyncLists ==
    { <<SyncSection("s1", t, c)>> : t \in SyncTitles, c \in SyncContents }
    \cup { <<SyncSection("s1", t1, c1), SyncSection("s2", t2, c2)>>
           : t1 \in SyncTitles, c1 \in SyncContents, t2 \in SyncTitles, c2 \in SyncContents }

SyncBatches ==
    { <<[action |-> "set_template", template_type |-> "table"]>>,
      <<[action |-> "clear_section", section_id |-> "s2"]>>,
      <<[action |-> "update_section", section_id |-> "s1", content |-> StrX]>>,
      <<[action |-> "create_structure", section_title |-> StrA, content |-> StrX]>> }

SyncInit ==
    /\ core \in {[phase |-> "sync", sections |-> l, actions |-> b] : l \in SyncLists, b \in SyncBatches}
    /\ state = StateOff /\ ui = UiOff /\ turn = TurnOff /\ storage = StorageOff
    /\ persist = PersistOff /\ dec = DecOff /\ hist = HistOff

\* applyBoardActions; done is nextSections and didChange when the forEach has ended,
\* again the post-pass applied to the sections of the result
SyncApply ==
    /\ core.phase = "sync"
    /\ \E result \in {applyBoardActions(core.sections, core.actions, 1)} :
        core' = [ phase |-> "synced", sections |-> core.sections, actions |-> core.actions,
                  done |-> ApplyAll([sections |-> core.sections, didChange |-> FALSE, fresh |-> 1],
                                    core.actions),
                  result |-> result,
                  again |-> syncDocumentTitle(result.sections) ]
    /\ UNCHANGED <<state, ui, turn, storage, persist, dec, hist>>

SyncNext == SyncApply

SpecSync == SyncInit /\ [][SyncNext]_vars

PlaceholderOf(title) == The({t.placeholder : t \in {u \in SyncTitles : u.title = title}})
HasLineOf(content) == The({c.hasLine : c \in {d \in SyncContents : d.content = content}})
LabelOf(content) == The({c.label : c \in {d \in SyncContents : d.content = content}})

\* the title the lead section is to have after the post-pass when its title is a placeholder
ExpectedLeadTitle(sections) ==
    LET later == {i \in 2..Len(sections) : ~PlaceholderOf(sections[i].title)}
        lined == {i \in 1..Len(sections) : HasLineOf(sections[i].content)}
    IN IF later # {} THEN sections[FirstOf(later)].title
       ELSE IF lined = {} THEN sections[1].title
       ELSE IF LabelOf(sections[FirstOf(lined)].content) = <<>> THEN sections[1].title
       ELSE LabelOf(sections[FirstOf(lined)].content)

\* C26: in the post-pass of a non-empty batch a placeholder lead title (blank, the default
\* title, a numbered label) is replaced by the first non-placeholder title of the later
\* sections, or else by the label of the first non-empty line of the contents; a lead
\* title of its own is not renamed; nothing but the lead title is touched; the post-pass
\* adds didChange exactly when the lead title changes; a second post-pass changes nothing
C26_PostPassPromotesLeadTitle ==
    core.phase = "synced"
    => /\ Len(core.result.sections) = Len(core.done.sections)
       /\ core.result.sections = [core.done.sections EXCEPT ![1].title = core.result.sections[1].title]
       /\ PlaceholderOf(core.done.sections[1].title)
             => core.result.sections[1].title = ExpectedLeadTitle(core.done.sections)
       /\ ~PlaceholderOf(core.done.sections[1].title) => core.result.sections = core.done.sections
       /\ core.result.didChange
             <=> (core.done.didChange \/ core.result.sections[1].title # core.done.sections[1].title)
       /\ core.again = core.result.sections

\* the lead took the title of a later section although its own content held a line, and
\* the batch had changed nothing before the post-pass
C26_LeadTookLaterTitle ==
    /\ core.phase = "synced" /\ Len(core.done.sections) = 2 /\ ~core.done.didChange
    /\ core.done.sections[1].title = StrSection1 /\ core.done.sections[1].content = StrX
    /\ core.done.sections[2].title = StrSectionX
    /\ core.result.sections[1].title = StrSectionX /\ core.result.didChange

\* the lead took the first 24 characters of a line and the ellipsis
C26_LeadTookCutLabel ==
    /\ core.phase = "synced" /\ core.done.sections[1].title = <<>>
    /\ core.done.sections[1].content = TextOfLength(25)
    /\ Len(core.result.sections[1].title) = 25

\* the label a placeholder lead took is a placeholder itself, and is kept by a second pass
C26_LabelIsPlaceholder ==
    /\ core.phase = "synced" /\ core.done.sections[1].title = DEFAULT_DOCUMENT_TITLE
    /\ core.result.sections[1].title = StrSection2 /\ core.again = core.result.sections

---------------------------------------------------------------------------
(* SpecCore, continued: titles of the sections of a result                       *)

DistinctTitles(sections) ==
    \A i, j \in 1..Len(sections) :
        normalizeTitleKey(sections[i].title) = normalizeTitleKey(sections[j].title) => i = j

---------------------------------------------------------------------------
(* SpecDefer: the persistence effect of DualPaneWorkspace while the page lives. *)
(* Every render with a new state runs the cleanup of the previous effect and    *)
(* the effect for the new state. storage.callbacks holds the callbacks the      *)
(* browser still has to run (the debounce timer of an effect, or the idle       *)
(* callback its timer asked for); hist numbers the states and logs the writes.  *)

MaxChanges == 2

\* a cleanup that would clear the timer but leave an idle callback already asked for
EffectCleanupKeepingIdle(callbacks, effect) ==
    {cb \in callbacks : cb.effect # effect \/ cb.stage = "idle"}

\* return () => { window.clearTimeout(timer); if (idleHandle !== null ...) cancelIdleCallback(idleHandle) }
EffectCleanup(callbacks, effect) == {cb \in callbacks : cb.effect # effect}

\* the body of the effect for the state numbered effect: snapshot, then window.setTimeout
EffectRun(callbacks, effect, st) ==
    callbacks \cup {[effect |-> effect, stage |-> "timer", snapshot |-> createPersistedSnapshot(st)]}

\* setItem accepts the first write, the third one, or none
DeferStorageBehaviours ==
    { [kind |-> "outcomes", accept |-> [i \in 1..3 |-> i >= first]] : first \in {1, 3, 4} }

DeferInit ==
    /\ state = InitialWorkspaceState(<<>>, "session")
    /\ \E hasIdle \in BOOLEAN :
        storage = [ phase |-> "defer", hasIdle |-> hasIdle, stored |-> <<>>,
                    callbacks |-> EffectRun({}, 0, state) ]
    /\ hist = [version |-> 0, log |-> <<>>]
    /\ ui = UiOff /\ turn = TurnOff /\ core = CoreOff /\ persist = PersistOff /\ dec = DecOff

\* a render: nothing when the updater returned prev, else cleanup and effect
Rendered(next) ==
    IF next = state THEN UNCHANGED <<storage, hist>>
    ELSE /\ storage' = [storage EXCEPT
                          !.callbacks = EffectRun(EffectCleanup(@, hist.version), hist.version + 1, next)]
         /\ hist' = [hist EXCEPT !.version = @ + 1]

DeferEdit ==
    /\ hist.version < MaxChanges
    /\ \E nextSections \in EditedBoards(state.boardSections), shouldSnapshot \in BOOLEAN :
        /\ state' = handleBoardSectionsChange(state, nextSections, shouldSnapshot)
        /\ Rendered(state')
    /\ UNCHANGED <<ui, turn, core, persist, dec>>

DeferTemplate ==
    /\ hist.version < MaxChanges
    /\ \E template \in BoardTemplateTypes :
        /\ state' = handleBoardTemplateChange(state, template)
        /\ Rendered(state')
    /\ UNCHANGED <<ui, turn, core, persist, dec>>

DeferUndo ==
    /\ hist.version < MaxChanges
    /\ state' = handleUndo(state)
    /\ Rendered(state')
    /\ UNCHANGED <<ui, turn, core, persist, dec>>

\* const persist = () => persistWorkspaceSnapshot(localStorage, STORAGE_KEY, snapshot): the
\* call runs to its return; the log keeps the state it wrote, the state that was current
\* and the profiles it tried
DeferPersist(cb, behaviour) ==
    \E done \in {persistWorkspaceSnapshot(cb.snapshot, behaviour)} :
        /\ storage' = [storage EXCEPT !.callbacks = @ \ {cb},
                                      !.stored = IF done.result = "failed" THEN @ ELSE done.stored]
        /\ hist' = [hist EXCEPT !.log = Append(@, [ effect |-> cb.effect, at |-> hist.version,
                                                    writes |-> done.writes, result |-> done.result ])]

\* the setTimeout callback: ask for an idle callback, or write at once without one
DeferTimerFires ==
    /\ \E cb \in {c \in storage.callbacks : c.stage = "timer"} :
        \/ /\ storage.hasIdle
           /\ storage' = [storage EXCEPT !.callbacks = (@ \ {cb}) \cup {[cb EXCEPT !.stage = "idle"]}]
           /\ UNCHANGED hist
        \/ /\ ~storage.hasIdle
           /\ \E behaviour \in DeferStorageBehaviours : DeferPersist(cb, behaviour)
    /\ UNCHANGED <<state, ui, turn, core, persist, dec>>

\* the idle callback
DeferIdleRuns ==
    /\ \E cb \in {c \in storage.callbacks : c.stage = "idle"} :
        \E behaviour \in DeferStorageBehaviours : DeferPersist(cb, behaviour)
    /\ UNCHANGED <<state, ui, turn, core, persist, dec>>

DeferNext == DeferEdit \/ DeferTemplate \/ DeferUndo \/ DeferTimerFires \/ DeferIdleRuns

SpecDefer == DeferInit /\ [][DeferNext]_vars

\* a timer that was set and not cleared fires, and an idle callback that was asked for
\* with a timeout and not cancelled runs
SpecDeferFair == SpecDefer /\ WF_vars(DeferTimerFires) /\ WF_vars(DeferIdleRuns)

\* the profiles one call tried: normal, aggressive, minimal, up to the first that was stored
TriedInOrder(writes) ==
    /\ Len(writes) \in 1..3
    /\ \A i \in 1..Len(writes) : writes[i].profile = Profiles[i]
    /\ \A i \in 1..(Len(writes) - 1) : ~writes[i].ok

DeferredWritesInOrder ==
    /\ Cardinality(storage.callbacks) <= 1
    /\ \A cb \in storage.callbacks :
          cb.effect = hist.version /\ cb.snapshot = createPersistedSnapshot(state)
    /\ \A i \in 1..Len(hist.log) :
          /\ hist.log[i].effect = hist.log[i].at
          /\ TriedInOrder(hist.log[i].writes)
          /\ \A j \in 1..(i - 1) : hist.log[j].effect < hist.log[i].effect

WriteAttempted(v) == \E i \in 1..Len(hist.log) : hist.log[i].effect = v

\* C25: every state change cancels the write scheduled for the state before, so at most
\* one write is pending, it is the write of the current state, and no state is written
\* after a newer one; each write tries its profiles in order up to the first success
\* before anything else runs; and once the state stops changing (the states of a
\* behaviour are numbered, and the number stops growing), a write of the latest state is
\* eventually attempted
C25_DeferredPersistence ==
    /\ []DeferredWritesInOrder
    /\ <>[]WriteAttempted(hist.version)

\* a write of the latest state was attempted after three profiles of an earlier write had
\* been tried, and the write of the state between was cancelled
C25_LatestWrittenAfterCancelled ==
    /\ hist.version = 2 /\ Len(hist.log) = 2
    /\ hist.log[1].effect = 0 /\ Len(hist.log[1].writes) = 3
    /\ hist.log[2].effect = 2
    /\ storage.callbacks = {}

---------------------------------------------------------------------------
(* Spec, continued: the protocol of an agent turn                               *)

\* the messages a final response has replaced: finalizeAgentSuccess gives them boardActions
FinalizedMessages(messages) ==
    {i \in 1..Len(messages) : messages[i].role = "assistant" /\ Has(messages[i], "boardActions")}

\* C30: in a turn started by a send or a retry, a failed stream is followed by one
\* non-streaming request and the turn ends with the outcome of that request; the error
\* state is raised, and retryCount grows by one, exactly when that request fails too;
\* the turn ends with isAiTyping = false and the stream preview cleared; the committed
\* sections are changed by the agent only in the step that ends the turn with a response;
\* and the text of a message a final response has replaced is never appended to
C30_TurnProtocol ==
    [][ /\ hist'.lastOp = "streamError" => (turn.phase = "streaming" /\ turn'.phase = "fallback")
        /\ (turn'.phase = "fallback" /\ turn.phase # "fallback") => hist'.lastOp = "streamError"
        /\ (turn.phase = "fallback" /\ turn'.phase # "fallback")
              => (turn'.phase = "idle" /\ hist'.lastOp \in {"finalize", "agentError"})
        /\ hist'.lastOp = "agentError"
              => /\ turn.phase = "fallback"
                 /\ state'.errorState.hasError
                 /\ state'.errorState.retryCount = state.errorState.retryCount + 1
        /\ ((state'.errorState.hasError /\ ~state.errorState.hasError)
                \/ state'.errorState.retryCount > state.errorState.retryCount)
              => hist'.lastOp = "agentError"
        /\ hist'.lastOp = "finalize" => ~state'.errorState.hasError
        /\ (turn.phase # "idle" /\ turn'.phase = "idle")
              => /\ hist'.lastOp \in {"finalize", "agentError"}
                 /\ ~state'.isAiTyping
                 /\ ui'.streamBoardPreview = <<>>
        /\ hist'.lastOp \in {"send", "retry", "delta", "flush", "preview", "streamError", "agentError"}
              => state'.boardSections = state.boardSections
        /\ hist'.lastOp = "finalize" => (turn.phase \in {"streaming", "fallback"} /\ turn'.phase = "idle")
        /\ \A i \in FinalizedMessages(state.chatMessages) :
              \A j \in 1..Len(state'.chatMessages) :
                  (state'.chatMessages[j].id = state.chatMessages[i].id
                      /\ hist'.lastOp \in {"delta", "flush", "streamError", "agentError"})
                  => state'.chatMessages[j].content = state.chatMessages[i].content ]_vars

\* a send and its retry both failed twice: the error is up and counted twice
C30_RetryFailedToo ==
    /\ hist.lastOp = "agentError" /\ turn.phase = "idle"
    /\ state.errorState.hasError /\ state.errorState.retryCount = 2
    /\ ~state.isAiTyping /\ ui.streamBoardPreview = <<>>

\* the non-streaming request answered after the stream had failed with text buffered
C30_FallbackAnswered ==
    /\ hist.lastOp = "finalize" /\ turn.phase = "idle"
    /\ ~state.errorState.hasError /\ ~state.isAiTyping /\ ui.streamBoardPreview = <<>>
    /\ state.boardSections # <<>>
    /\ FinalizedMessages(state.chatMessages) # {}

=============================================================================
